---- MODULE Spec2Model ----
(***************************************************************************)
(* Model of the cryss lexer: the automaton Inner (src/lexer.rs), the       *)
(* streaming driver Lexer (read / next / ask) and the position model       *)
(* (src/pos.rs).  A character is a one-character string, a line a sequence *)
(* of characters, Option<T> a sequence of length 0 (None) or 1 (Some).     *)
(***************************************************************************)
EXTENDS Integers, Sequences, FiniteSets, TLC

VARIABLES input, log, comment, string, queue, last, src

vars == <<input, log, comment, string, queue, last, src>>

(* ------------------------------ bounds --------------------------------- *)

\* Longest source text enumerated exhaustively over Alphabet.
MaxLen == 4

\* Characters of the exhaustively enumerated source texts.
Alphabet == {"/", "*", "\"", "\\", "a", " ", "\n"}

\* Predicates handed to ask: |t| matches!(t, Token::<kind>).
Preds == {"Identifier", "Asterisk"}

(* --------------------------- Option, helpers --------------------------- *)

None == <<>>

Some(x) == <<x>>

Front(s) == SubSeq(s, 1, Len(s) - 1)

Slice(line, from, to) == SubSeq(line, from + 1, to)

(* ------------------------------- pos.rs -------------------------------- *)

PosNew(line, byte) == [line |-> line, byte |-> byte]

PosLe(a, b) == a.line < b.line \/ (a.line = b.line /\ a.byte <= b.byte)

PosLt(a, b) == a.line < b.line \/ (a.line = b.line /\ a.byte < b.byte)

RangeNew(start, end) == [start |-> start, end |-> end]

(* ------------------------------ error.rs ------------------------------- *)

ErrPos(kind, pos) == [kind |-> kind, pos |-> Some(pos), range |-> None]

\* ErrRange that drops the range.
ErrRangeDropped(kind, range) == [kind |-> kind, pos |-> None, range |-> None]

ErrRange(kind, range) == [kind |-> kind, pos |-> None, range |-> Some(range)]

ErrBare(kind) == [kind |-> kind, pos |-> None, range |-> None]

(* --------------------------- character classes ------------------------- *)

Letters ==
    {"a", "b", "c", "d", "e", "f", "g", "h", "i", "j", "k", "l", "m",
     "n", "o", "p", "q", "r", "s", "t", "u", "v", "w", "x", "y", "z",
     "A", "B", "C", "D", "E", "F", "G", "H", "I", "J", "K", "L", "M",
     "N", "O", "P", "Q", "R", "S", "T", "U", "V", "W", "X", "Y", "Z", "_"}

Digits == {"0", "1", "2", "3", "4", "5", "6", "7", "8", "9"}

IdentChars == Letters \cup {"$"} \cup Digits

\* u8::is_ascii_whitespace: space, tab, line feed, form feed, carriage return.
Whitespace == {" ", "\t", "\n", "\f", "\r"}

\* Escape table of a string literal; "NUL" stands for the character U+0000.
Unescape(c) ==
    CASE c = "n" -> "\n"
      [] c = "r" -> "\r"
      [] c = "t" -> "\t"
      [] c = "0" -> "NUL"
      [] OTHER -> c

(* ------------------------- automaton: tables --------------------------- *)

\* State entered from "no token open" by an operator or punctuation character.
BeginTable ==
    [c \in {"+", "-", "*", "/", "%", "^", "=", "!", "<", ">", "&", "|", ":",
            ";", ",", ".", "?", "(", ")", "[", "]", "{", "}"} |->
        CASE c = "+" -> "Plus"
          [] c = "-" -> "Hyphen"
          [] c = "*" -> "Asterisk"
          [] c = "/" -> "Slash"
          [] c = "%" -> "Percent"
          [] c = "^" -> "Circumflex"
          [] c = "=" -> "Equal"
          [] c = "!" -> "Exclamation"
          [] c = "<" -> "Less"
          [] c = ">" -> "Greater"
          [] c = "&" -> "Ampersand"
          [] c = "|" -> "Bar"
          [] c = ":" -> "Colon"
          [] c = ";" -> "Semicolon"
          [] c = "," -> "Comma"
          [] c = "." -> "Dot"
          [] c = "?" -> "Question"
          [] c = "(" -> "OpeningParenthesis"
          [] c = ")" -> "ClosingParenthesis"
          [] c = "[" -> "OpeningBracket"
          [] c = "]" -> "ClosingBracket"
          [] c = "{" -> "OpeningBrace"
          [] c = "}" -> "ClosingBrace"]

\* Extend with no exponent after a decimal point.
ExtendNoDecimalExponent(state, c) ==
    CASE state = "Identifier" /\ c \in IdentChars -> "Identifier"
      [] state = "Parameter" /\ c \in IdentChars -> "Parameter"
      [] state = "Integer" /\ c \in Digits -> "Integer"
      [] state = "Integer" /\ c = "." -> "Decimal"
      [] state \in {"Dot", "Decimal"} /\ c \in Digits -> "Decimal"
      [] state = "Integer" /\ c \in {"e", "E"} -> "ScientificIncomplete"
      [] state = "ScientificIncomplete" /\ c \in {"+", "-"} -> "ScientificSign"
      [] state \in {"ScientificIncomplete", "ScientificSign", "Scientific"}
            /\ c \in Digits -> "Scientific"
      [] state = "Equal" /\ c = "=" -> "DoubleEqual"
      [] state = "Equal" /\ c = ">" -> "EqualGreater"
      [] state = "Hyphen" /\ c = ">" -> "HyphenGreater"
      [] state = "Exclamation" /\ c = "=" -> "ExclamationEqual"
      [] state = "Ampersand" /\ c = "&" -> "DoubleAmpersand"
      [] state = "Bar" /\ c = "|" -> "DoubleBar"
      [] state = "Less" /\ c = "<" -> "DoubleLess"
      [] state = "Greater" /\ c = ">" -> "DoubleGreater"
      [] OTHER -> ""

\* Extend with no number starting at a decimal point.
ExtendNoLeadingDot(state, c) ==
    CASE state = "Identifier" /\ c \in IdentChars -> "Identifier"
      [] state = "Parameter" /\ c \in IdentChars -> "Parameter"
      [] state = "Integer" /\ c \in Digits -> "Integer"
      [] state = "Integer" /\ c = "." -> "Decimal"
      [] state = "Decimal" /\ c \in Digits -> "Decimal"
      [] state \in {"Integer", "Decimal"} /\ c \in {"e", "E"} -> "ScientificIncomplete"
      [] state = "ScientificIncomplete" /\ c \in {"+", "-"} -> "ScientificSign"
      [] state \in {"ScientificIncomplete", "ScientificSign", "Scientific"}
            /\ c \in Digits -> "Scientific"
      [] state = "Equal" /\ c = "=" -> "DoubleEqual"
      [] state = "Equal" /\ c = ">" -> "EqualGreater"
      [] state = "Hyphen" /\ c = ">" -> "HyphenGreater"
      [] state = "Exclamation" /\ c = "=" -> "ExclamationEqual"
      [] state = "Ampersand" /\ c = "&" -> "DoubleAmpersand"
      [] state = "Bar" /\ c = "|" -> "DoubleBar"
      [] state = "Less" /\ c = "<" -> "DoubleLess"
      [] state = "Greater" /\ c = ">" -> "DoubleGreater"
      [] OTHER -> ""

\* Extend without the transition from - to ->.
ExtendNoArrow(state, c) ==
    CASE state = "Identifier" /\ c \in IdentChars -> "Identifier"
      [] state = "Parameter" /\ c \in IdentChars -> "Parameter"
      [] state = "Integer" /\ c \in Digits -> "Integer"
      [] state = "Integer" /\ c = "." -> "Decimal"
      [] state \in {"Dot", "Decimal"} /\ c \in Digits -> "Decimal"
      [] state \in {"Integer", "Decimal"} /\ c \in {"e", "E"} -> "ScientificIncomplete"
      [] state = "ScientificIncomplete" /\ c \in {"+", "-"} -> "ScientificSign"
      [] state \in {"ScientificIncomplete", "ScientificSign", "Scientific"}
            /\ c \in Digits -> "Scientific"
      [] state = "Equal" /\ c = "=" -> "DoubleEqual"
      [] state = "Equal" /\ c = ">" -> "EqualGreater"
      [] state = "Exclamation" /\ c = "=" -> "ExclamationEqual"
      [] state = "Ampersand" /\ c = "&" -> "DoubleAmpersand"
      [] state = "Bar" /\ c = "|" -> "DoubleBar"
      [] state = "Less" /\ c = "<" -> "DoubleLess"
      [] state = "Greater" /\ c = ">" -> "DoubleGreater"
      [] OTHER -> ""

\* The transitions that extend the open token: (state, character) -> state,
\* "" when the character does not extend it.
Extend(state, c) ==
    CASE state = "Identifier" /\ c \in IdentChars -> "Identifier"
      [] state = "Parameter" /\ c \in IdentChars -> "Parameter"
      [] state = "Integer" /\ c \in Digits -> "Integer"
      [] state = "Integer" /\ c = "." -> "Decimal"
      [] state \in {"Dot", "Decimal"} /\ c \in Digits -> "Decimal"
      [] state \in {"Integer", "Decimal"} /\ c \in {"e", "E"} -> "ScientificIncomplete"
      [] state = "ScientificIncomplete" /\ c \in {"+", "-"} -> "ScientificSign"
      [] state \in {"ScientificIncomplete", "ScientificSign", "Scientific"}
            /\ c \in Digits -> "Scientific"
      [] state = "Equal" /\ c = "=" -> "DoubleEqual"
      [] state = "Equal" /\ c = ">" -> "EqualGreater"
      [] state = "Hyphen" /\ c = ">" -> "HyphenGreater"
      [] state = "Exclamation" /\ c = "=" -> "ExclamationEqual"
      [] state = "Ampersand" /\ c = "&" -> "DoubleAmpersand"
      [] state = "Bar" /\ c = "|" -> "DoubleBar"
      [] state = "Less" /\ c = "<" -> "DoubleLess"
      [] state = "Greater" /\ c = ">" -> "DoubleGreater"
      [] OTHER -> ""

Keywords ==
    {<<"i", "f">>, <<"e", "l", "s", "e">>, <<"w", "h", "i", "l", "e">>,
     <<"f", "o", "r">>, <<"l", "e", "t">>, <<"d", "e", "f">>,
     <<"b", "r", "e", "a", "k">>, <<"c", "o", "n", "t", "i", "n", "u", "e">>,
     <<"r", "e", "t", "u", "r", "n">>}

\* KeywordToken with eight entries: while is missing.
KeywordTokenNoWhile(text) ==
    CASE text = <<"i", "f">> -> "KeywordIf"
      [] text = <<"e", "l", "s", "e">> -> "KeywordElse"
      [] text = <<"f", "o", "r">> -> "KeywordFor"
      [] text = <<"l", "e", "t">> -> "KeywordLet"
      [] text = <<"d", "e", "f">> -> "KeywordDef"
      [] text = <<"b", "r", "e", "a", "k">> -> "KeywordBreak"
      [] text = <<"c", "o", "n", "t", "i", "n", "u", "e">> -> "KeywordContinue"
      [] text = <<"r", "e", "t", "u", "r", "n">> -> "KeywordReturn"
      [] OTHER -> "Identifier"

KeywordToken(text) ==
    CASE text = <<"i", "f">> -> "KeywordIf"
      [] text = <<"e", "l", "s", "e">> -> "KeywordElse"
      [] text = <<"w", "h", "i", "l", "e">> -> "KeywordWhile"
      [] text = <<"f", "o", "r">> -> "KeywordFor"
      [] text = <<"l", "e", "t">> -> "KeywordLet"
      [] text = <<"d", "e", "f">> -> "KeywordDef"
      [] text = <<"b", "r", "e", "a", "k">> -> "KeywordBreak"
      [] text = <<"c", "o", "n", "t", "i", "n", "u", "e">> -> "KeywordContinue"
      [] text = <<"r", "e", "t", "u", "r", "n">> -> "KeywordReturn"
      [] OTHER -> "Identifier"

Tok(kind, text) == [kind |-> kind, text |-> text]

\* ErrorOfState with the lone & taken for a token.
ErrorOfStateAmpersandToken(state) ==
    CASE state \in {"ScientificIncomplete", "ScientificSign"} -> "IncompleteScientificNotation"
      [] state = "Dot" -> "SingleDot"
      [] OTHER -> ""

\* States whose finalization is an error instead of a token.
ErrorOfState(state) ==
    CASE state \in {"ScientificIncomplete", "ScientificSign"} -> "IncompleteScientificNotation"
      [] state = "Ampersand" -> "SingleAmpersand"
      [] state = "Dot" -> "SingleDot"
      [] OTHER -> ""

\* The token a finalized state yields: prev = [start, state, str], text = the
\* slice line[start.byte..index].  A number keeps its source text: every text
\* of the states Integer, Decimal, Scientific is accepted by f64::from_str.
Classify(prev, text) ==
    CASE prev.state = "Identifier" ->
            IF text \in Keywords THEN Tok(KeywordToken(text), <<>>)
            ELSE Tok("Identifier", text)
      [] prev.state = "Parameter" -> Tok("Parameter", text)
      [] prev.state \in {"Integer", "Decimal", "Scientific"} -> Tok("Number", text)
      [] prev.state = "String" -> Tok("String", prev.str)
      [] OTHER -> Tok(prev.state, <<>>)

(* --------------------------- automaton: run ---------------------------- *)

\* A quote met with no string open: Inner::string records where the literal
\* starts, and no token is open.
OpenStringAfterQuote(acc, pos) ==
    [acc EXCEPT !.string = Some([pos |-> PosNew(pos.line, pos.byte + 1), text |-> <<>>]),
                !.prev = None, !.i = @ + 1]

OpenString(acc, pos) ==
    [acc EXCEPT !.string = Some([pos |-> pos, text |-> <<>>]),
                !.prev = None, !.i = @ + 1]

\* Inner::begin, the transition from "no token open" on character c at pos.
\* acc is the state of one Inner::run call: the fields of Inner (comment,
\* string), the queue, the local prev, the index i of the next character
\* (1-based), status "run" | "ok" | "err" with the error returned, and
\* pushed, the number of queue.push_back calls so far.
Begin(acc, pos, c) ==
    LET open(state) ==
            [acc EXCEPT !.prev = Some([start |-> pos, state |-> state, str |-> <<>>]),
                        !.i = @ + 1]
    IN  CASE c \in Letters -> open("Identifier")
          [] c = "$" -> open("Parameter")
          [] c \in Digits -> open("Integer")
          [] c = "\"" -> OpenString(acc, pos)
          [] c \in DOMAIN BeginTable -> open(BeginTable[c])
          [] c \in Whitespace -> [acc EXCEPT !.prev = None, !.i = @ + 1]
          [] OTHER ->
                [acc EXCEPT !.status = "err",
                            !.err = Some(ErrPos("UnexpectedCharacter", pos))]

\* CommentStep with a closing sequence ending the comment at every level.
CommentStepCloseAll(acc, pos, c, peek) ==
    CASE c = "*" /\ peek = "/" ->
            [acc EXCEPT !.comment = <<>>, !.i = @ + 2]
      [] c = "/" /\ peek = "*" ->
            [acc EXCEPT !.comment = Append(@, pos), !.i = @ + 2]
      [] c = "/" /\ peek = "/" -> [acc EXCEPT !.status = "ok"]
      [] OTHER -> [acc EXCEPT !.i = @ + 1]

\* CommentStep without the line comment inside a block comment.
CommentStepNoLineComment(acc, pos, c, peek) ==
    CASE c = "*" /\ peek = "/" ->
            [acc EXCEPT !.comment = Front(@), !.i = @ + 2]
      [] c = "/" /\ peek = "*" ->
            [acc EXCEPT !.comment = Append(@, pos), !.i = @ + 2]
      [] OTHER -> [acc EXCEPT !.i = @ + 1]

\* One character while a block comment is open (peek = the next character of
\* the line, "" at its end).
CommentStep(acc, pos, c, peek) ==
    CASE c = "*" /\ peek = "/" ->
            [acc EXCEPT !.comment = Front(@), !.i = @ + 2]
      [] c = "/" /\ peek = "*" ->
            [acc EXCEPT !.comment = Append(@, pos), !.i = @ + 2]
      [] c = "/" /\ peek = "/" -> [acc EXCEPT !.status = "ok"]
      [] OTHER -> [acc EXCEPT !.i = @ + 1]

\* StringClose that leaves the string literal open.
StringCloseKeepOpen(acc) ==
    [acc EXCEPT !.prev = Some([start |-> acc.string[1].pos, state |-> "String",
                               str |-> acc.string[1].text]),
                !.i = @ + 1]

\* The closing quote of the open string literal: the String state becomes
\* the open token, finalized by the next character.
StringClose(acc) ==
    [acc EXCEPT !.prev = Some([start |-> acc.string[1].pos, state |-> "String",
                               str |-> acc.string[1].text]),
                !.string = None, !.i = @ + 1]

\* StringStep that takes a backslash at the end of the line for itself.
StringStepLenient(acc, pos, c, peek) ==
    IF c = "\\"
    THEN IF peek = ""
         THEN [acc EXCEPT !.string[1].text = Append(@, c), !.i = @ + 1]
         ELSE [acc EXCEPT !.string[1].text = Append(@, Unescape(peek)), !.i = @ + 2]
    ELSE [acc EXCEPT !.string[1].text = Append(@, c), !.i = @ + 1]

\* StringStep that takes the character after a backslash a second time.
StringStepEscapeNotConsumed(acc, pos, c, peek) ==
    IF c = "\\"
    THEN IF peek = ""
         THEN [acc EXCEPT !.status = "err",
                          !.err = Some(ErrPos("NoCharacterAfterBackSlash", pos))]
         ELSE [acc EXCEPT !.string[1].text = Append(@, Unescape(peek)), !.i = @ + 1]
    ELSE [acc EXCEPT !.string[1].text = Append(@, c), !.i = @ + 1]

\* One character other than the quote while a string literal is open.
StringStep(acc, pos, c, peek) ==
    IF c = "\\"
    THEN IF peek = ""
         THEN [acc EXCEPT !.status = "err",
                          !.err = Some(ErrPos("NoCharacterAfterBackSlash", pos))]
         ELSE [acc EXCEPT !.string[1].text = Append(@, Unescape(peek)), !.i = @ + 2]
    ELSE [acc EXCEPT !.string[1].text = Append(@, c), !.i = @ + 1]

\* Finalize that queues a token for the text of a state that is an error.
FinalizeQueuesFaulty(acc, pos, c, line) ==
    LET prev  == acc.prev[1]
        range == RangeNew(prev.start, pos)
        text  == Slice(line, prev.start.byte, pos.byte)
    IN  IF ErrorOfState(prev.state) # ""
        THEN [acc EXCEPT !.status = "err",
                         !.err = Some(ErrRange(ErrorOfState(prev.state), range)),
                         !.queue = Append(@, [range |-> range,
                                              token |-> Classify(prev, text)])]
        ELSE Begin([acc EXCEPT !.queue = Append(@, [range |-> range,
                                                    token |-> Classify(prev, text)]),
                               !.pushed = @ + 1],
                   pos, c)

\* Finalize with the range of the token taken from the ending character on.
FinalizeRangeAtEnd(acc, pos, c, line) ==
    LET prev  == acc.prev[1]
        range == RangeNew(pos, PosNew(pos.line, pos.byte + 1))
        text  == Slice(line, prev.start.byte, pos.byte)
    IN  IF ErrorOfState(prev.state) # ""
        THEN [acc EXCEPT !.status = "err",
                         !.err = Some(ErrRange(ErrorOfState(prev.state), range))]
        ELSE Begin([acc EXCEPT !.queue = Append(@, [range |-> range,
                                                    token |-> Classify(prev, text)]),
                               !.pushed = @ + 1],
                   pos, c)

\* The open token prev = Some((start, state)) is ended by character c at pos:
\* an error for the states that are no token, else the one queue.push_back of
\* the automaton followed by the transition from None.
Finalize(acc, pos, c, line) ==
    LET prev  == acc.prev[1]
        range == RangeNew(prev.start, pos)
        text  == Slice(line, prev.start.byte, pos.byte)
    IN  IF ErrorOfState(prev.state) # ""
        THEN [acc EXCEPT !.status = "err",
                         !.err = Some(ErrRange(ErrorOfState(prev.state), range))]
        ELSE Begin([acc EXCEPT !.queue = Append(@, [range |-> range,
                                                    token |-> Classify(prev, text)]),
                               !.pushed = @ + 1],
                   pos, c)

\* TokenStep that records a block comment at the position of its *.
TokenStepPushStar(acc, pos, c, line) ==
    LET prev == acc.prev[1]
    IN  CASE Extend(prev.state, c) # "" ->
                [acc EXCEPT !.prev[1].state = Extend(prev.state, c), !.i = @ + 1]
          [] prev.state = "Slash" /\ c = "/" -> [acc EXCEPT !.status = "ok"]
          [] prev.state = "Slash" /\ c = "*" ->
                [acc EXCEPT !.comment = Append(@, pos), !.prev = None,
                            !.i = @ + 1]
          [] OTHER -> Finalize(acc, pos, c, line)

\* One character of the generic automaton with a token open.
TokenStep(acc, pos, c, line) ==
    LET prev == acc.prev[1]
    IN  CASE Extend(prev.state, c) # "" ->
                [acc EXCEPT !.prev[1].state = Extend(prev.state, c), !.i = @ + 1]
          [] prev.state = "Slash" /\ c = "/" -> [acc EXCEPT !.status = "ok"]
          [] prev.state = "Slash" /\ c = "*" ->
                [acc EXCEPT !.comment = Append(@, prev.start), !.prev = None,
                            !.i = @ + 1]
          [] OTHER -> Finalize(acc, pos, c, line)

\* RunStep that numbers the line one too high.
RunStepNextLine(acc, line_num, line) ==
    LET c    == line[acc.i]
        pos  == PosNew(line_num + 1, acc.i - 1)
        peek == IF acc.i < Len(line) THEN line[acc.i + 1] ELSE ""
    IN  CASE acc.comment # <<>> -> CommentStep(acc, pos, c, peek)
          [] acc.comment = <<>> /\ c = "\"" /\ acc.string # None -> StringClose(acc)
          [] acc.comment = <<>> /\ c # "\"" /\ acc.string # None ->
                StringStep(acc, pos, c, peek)
          [] acc.comment = <<>> /\ acc.string = None /\ acc.prev = None ->
                Begin(acc, pos, c)
          [] OTHER -> TokenStep(acc, pos, c, line)

\* The body of the while loop of Inner::run for the character at index acc.i.
RunStep(acc, line_num, line) ==
    LET c    == line[acc.i]
        pos  == PosNew(line_num, acc.i - 1)
        peek == IF acc.i < Len(line) THEN line[acc.i + 1] ELSE ""
    IN  CASE acc.comment # <<>> -> CommentStep(acc, pos, c, peek)
          [] acc.comment = <<>> /\ c = "\"" /\ acc.string # None -> StringClose(acc)
          [] acc.comment = <<>> /\ c # "\"" /\ acc.string # None ->
                StringStep(acc, pos, c, peek)
          [] acc.comment = <<>> /\ acc.string = None /\ acc.prev = None ->
                Begin(acc, pos, c)
          [] OTHER -> TokenStep(acc, pos, c, line)

\* The end of Inner::run once the characters of the line are exhausted.
\* RunEnd without the check for a token left open.
RunEndNoCheck(acc) == [acc EXCEPT !.status = "ok"]

\* eol records the prev this check looked at.
RunEnd(acc) ==
    IF acc.prev # None
    THEN [acc EXCEPT !.status = "err", !.err = Some(ErrBare("NoLineFeedAtEOF")),
                     !.eol = acc.prev]
    ELSE [acc EXCEPT !.status = "ok"]

RECURSIVE RunLoop(_, _, _)
RunLoop(acc, line_num, line) ==
    IF acc.status # "run" THEN acc
    ELSE IF acc.i > Len(line) THEN RunEnd(acc)
    ELSE RunLoop(RunStep(acc, line_num, line), line_num, line)

\* Inner::run(line_num, line, queue) on the automaton state (comment, string).
Run(cm, st, line_num, line, q) ==
    RunLoop([comment |-> cm, string |-> st, queue |-> q, prev |-> None, i |-> 1,
             status |-> "run", err |-> None, pushed |-> 0, eol |-> None],
            line_num, line)

(* ------------------------------- Lexer --------------------------------- *)

\* BufRead::read_line cuts the source after each line feed; the last line
\* alone may lack it, and no line is empty.
RECURSIVE SplitFrom(_, _, _)
SplitFrom(text, from, i) ==
    IF i > Len(text)
    THEN IF from > Len(text) THEN <<>> ELSE <<SubSeq(text, from, Len(text))>>
    ELSE IF text[i] = "\n"
         THEN <<SubSeq(text, from, i)>> \o SplitFrom(text, i + 1, i + 1)
         ELSE SplitFrom(text, from, i + 1)

SplitLines(text) == SplitFrom(text, 1, 1)

\* The lexer and its caller's log as one record L = [input, log, comment,
\* string, queue]; input holds the lines the reader has not yet handed out.
\* The prompt flag only prints and is left out.
LexerState(i, l, c, st, q) ==
    [input |-> i, log |-> l, comment |-> c, string |-> st, queue |-> q]

\* Lexer::new over a reader holding lines, with the empty log of its caller.
LexerNew(lines) == LexerState(lines, <<>>, <<>>, None, <<>>)

\* The line-read branch of read with the log written only when run succeeds.
ReadLineLogOnSuccess(L) ==
    LET line == Head(L.input)
        r    == Run(L.comment, L.string, Len(L.log), line, L.queue)
    IN  [L |-> [input |-> Tail(L.input),
                log |-> IF r.status = "ok" THEN Append(L.log, line) ELSE L.log,
                comment |-> r.comment, string |-> r.string, queue |-> r.queue],
         res |-> IF r.status = "ok" THEN "True" ELSE "Err",
         err |-> r.err, pushed |-> r.pushed, eol |-> r.eol]

\* The line-read branch of read with the queue emptied when run fails.
ReadLineClearOnError(L) ==
    LET line == Head(L.input)
        r    == Run(L.comment, L.string, Len(L.log), line, L.queue)
    IN  [L |-> [input |-> Tail(L.input), log |-> Append(L.log, line),
                comment |-> r.comment, string |-> r.string,
                queue |-> IF r.status = "ok" THEN r.queue ELSE <<>>],
         res |-> IF r.status = "ok" THEN "True" ELSE "Err",
         err |-> r.err, pushed |-> r.pushed, eol |-> r.eol]

\* Lexer::read returns res "True" | "False" for Ok(true) | Ok(false), else
\* "Err" with err; pushed counts the queue.push_back calls, eol is the prev
\* that run found open at the end of the line.
\* read_line gave a line: run it, then push it to the log.
ReadLine(L) ==
    LET line == Head(L.input)
        r    == Run(L.comment, L.string, Len(L.log), line, L.queue)
    IN  [L |-> [input |-> Tail(L.input), log |-> Append(L.log, line),
                comment |-> r.comment, string |-> r.string, queue |-> r.queue],
         res |-> IF r.status = "ok" THEN "True" ELSE "Err",
         err |-> r.err, pushed |-> r.pushed, eol |-> r.eol]

\* ReadEof that closes an open comment or string without reporting it.
ReadEofSilent(L) ==
    IF L.comment # <<>>
    THEN [L |-> [L EXCEPT !.comment = Front(@)], res |-> "False",
          err |-> None, pushed |-> 0, eol |-> None]
    ELSE IF L.string # None
    THEN [L |-> [L EXCEPT !.string = None], res |-> "False",
          err |-> None, pushed |-> 0, eol |-> None]
    ELSE [L |-> L, res |-> "False", err |-> None, pushed |-> 0, eol |-> None]

\* read_line gave nothing: the reader is exhausted.
ReadEof(L) ==
    IF L.comment # <<>>
    THEN [L |-> [L EXCEPT !.comment = Front(@)], res |-> "Err",
          err |-> Some(ErrPos("UnterminatedComment", L.comment[Len(L.comment)])),
          pushed |-> 0, eol |-> None]
    ELSE IF L.string # None
    THEN [L |-> [L EXCEPT !.string = None], res |-> "Err",
          err |-> Some(ErrPos("UnterminatedStringLiteral", L.string[1].pos)),
          pushed |-> 0, eol |-> None]
    ELSE [L |-> L, res |-> "False", err |-> None, pushed |-> 0, eol |-> None]

read(L) == IF L.input # <<>> THEN ReadLine(L) ELSE ReadEof(L)

\* A caller's predicate fnc applied to a token.
Apply(fnc, token) == token.kind = fnc

\* NextIter with the read done before the queue is looked at.
NextIterEager(L) ==
    LET r == read(L)
    IN  IF r.L.queue # <<>> /\ r.res # "Err"
        THEN [done |-> TRUE, L |-> [r.L EXCEPT !.queue = Tail(@)], res |-> "Some",
              tok |-> Some(Head(r.L.queue)), front |-> None, err |-> None,
              reads |-> 1, pushed |-> r.pushed, eol |-> r.eol]
        ELSE [done |-> r.res # "True", L |-> r.L,
              res |-> IF r.res = "False" THEN "None" ELSE r.res,
              tok |-> None, front |-> None, err |-> r.err,
              reads |-> 1, pushed |-> r.pushed, eol |-> r.eol]

\* One iteration of the loop of Lexer::next.
NextIter(L) ==
    IF L.queue # <<>>
    THEN [done |-> TRUE, L |-> [L EXCEPT !.queue = Tail(@)], res |-> "Some",
          tok |-> Some(Head(L.queue)), front |-> None, err |-> None,
          reads |-> 0, pushed |-> 0, eol |-> None]
    ELSE LET r == read(L)
         IN  [done |-> r.res # "True", L |-> r.L,
              res |-> IF r.res = "False" THEN "None" ELSE r.res,
              tok |-> None, front |-> None, err |-> r.err,
              reads |-> 1, pushed |-> r.pushed, eol |-> r.eol]

\* AskIter taking the front token out of the queue, as next does.
AskIterPop(L, fnc) ==
    IF L.queue # <<>>
    THEN [done |-> TRUE, L |-> [L EXCEPT !.queue = Tail(@)],
          res |-> IF Apply(fnc, Head(L.queue).token) THEN "True" ELSE "False",
          tok |-> None, front |-> Some(Head(L.queue)), err |-> None,
          reads |-> 0, pushed |-> 0, eol |-> None]
    ELSE LET r == read(L)
         IN  [done |-> r.res # "True", L |-> r.L, res |-> r.res,
              tok |-> None, front |-> None, err |-> r.err,
              reads |-> 1, pushed |-> r.pushed, eol |-> r.eol]

\* AskIter reading once more after the reader reported exhaustion.
AskIterRetry(L, fnc) ==
    IF L.queue # <<>>
    THEN [done |-> TRUE, L |-> L,
          res |-> IF Apply(fnc, Head(L.queue).token) THEN "True" ELSE "False",
          tok |-> None, front |-> Some(Head(L.queue)), err |-> None,
          reads |-> 0, pushed |-> 0, eol |-> None]
    ELSE LET r  == read(L)
             r2 == IF r.res = "False" THEN read(r.L) ELSE r
         IN  [done |-> r2.res # "True", L |-> r2.L, res |-> r2.res,
              tok |-> None, front |-> None, err |-> r2.err,
              reads |-> IF r.res = "False" THEN 2 ELSE 1,
              pushed |-> r2.pushed, eol |-> r2.eol]

\* One iteration of the loop of Lexer::ask.
AskIter(L, fnc) ==
    IF L.queue # <<>>
    THEN [done |-> TRUE, L |-> L,
          res |-> IF Apply(fnc, Head(L.queue).token) THEN "True" ELSE "False",
          tok |-> None, front |-> Some(Head(L.queue)), err |-> None,
          reads |-> 0, pushed |-> 0, eol |-> None]
    ELSE LET r == read(L)
         IN  [done |-> r.res # "True", L |-> r.L, res |-> r.res,
              tok |-> None, front |-> None, err |-> r.err,
              reads |-> 1, pushed |-> r.pushed, eol |-> r.eol]

\* The loop: iterate until a break or an error, summing the reads attempted
\* and the tokens pushed over the whole call.
Sum(it, reads, pushed) ==
    [it EXCEPT !.reads = @ + reads, !.pushed = @ + pushed]

RECURSIVE NextLoop(_, _, _)
NextLoop(L, reads, pushed) ==
    LET it == NextIter(L)
    IN  IF it.done THEN Sum(it, reads, pushed)
        ELSE NextLoop(it.L, reads + it.reads, pushed + it.pushed)

RECURSIVE AskLoop(_, _, _, _)
AskLoop(L, fnc, reads, pushed) ==
    LET it == AskIter(L, fnc)
    IN  IF it.done THEN Sum(it, reads, pushed)
        ELSE AskLoop(it.L, fnc, reads + it.reads, pushed + it.pushed)

next(L) == NextLoop(L, 0, 0)

ask(L, fnc) == AskLoop(L, fnc, 0, 0)

(* --------------------------- the state machine ------------------------- *)

\* Source texts beyond the exhaustive ones: the examples of the tests.
Samples ==
    { <<"/", "*", " ", "/", "*", " ", "*", "/", " ", "*", "/", " ", "a", "\n">>,
      <<"/", "*", " ", "/", "/", " ", "*", "/", "\n", "*", "/", " ", "a", "\n">>,
      <<"/", "*", "/", "*", "\n", "/", "/", "*", "/", "*", "/", "\n", "*", "/", "a", "\n">>,
      <<"/", "*", "/", "*", "/", "*", "\n", "*", "/", " ", "/", "*", "\n",
        "*", "/", "*", "/", "*", "/", "a", "\n">>,
      <<"a", " ", "\"", "a", "\n", "a", "\n", "a">>,
      <<"a", " ", "*", " ", "&", " ", "a", "\n", "a", "\n">>,
      <<"&">>, <<"a", "&", "\n", "a", "\n">>,
      <<"1", "e">>, <<"1", ".", "5", "e", "+">>, <<".">>, <<"1", ".">>,
      <<"\"", "a", "\"">>,
      <<"a", "\"", "a", "\"", "/", "*", "a", "*", "/", "\n">>,
      <<".", "\n">>, <<"a", " ", "1", "e", "\n", "a", "\n">>,
      <<"a", " ", "\"", "\n", "\"", " ", "a", " ", "a", "\n">> }

ShortTexts == UNION {[1..n -> Alphabet] : n \in 0..MaxLen}

Inputs == ShortTexts \cup Samples

State == [input |-> input, log |-> log, comment |-> comment, string |-> string,
          queue |-> queue]

Pre == [ninput |-> Len(input), nlog |-> Len(log), comment |-> comment,
        string |-> string, queue |-> queue]

Init ==
    /\ src \in {SplitLines(t) : t \in Inputs}
    /\ input = src
    /\ log = <<>>
    /\ comment = <<>>
    /\ string = None
    /\ queue = <<>>
    /\ last = [op |-> "new", fnc |-> "", res |-> "", tok |-> None, front |-> None,
               err |-> None, reads |-> 0, pushed |-> 0, eol |-> None, pre |-> Pre]

\* The call returned r: the lexer and the log take its state, last records
\* the call and what it returned.
Return(op, fnc, r) ==
    /\ input' = r.L.input
    /\ log' = r.L.log
    /\ comment' = r.L.comment
    /\ string' = r.L.string
    /\ queue' = r.L.queue
    /\ last' = [op |-> op, fnc |-> fnc, res |-> r.res, tok |-> r.tok,
                front |-> r.front, err |-> r.err, reads |-> r.reads,
                pushed |-> r.pushed, eol |-> r.eol, pre |-> Pre]
    /\ UNCHANGED src

CallNext == Return("next", "", next(State))

CallAsk == \E fnc \in Preds : Return("ask", fnc, ask(State, fnc))

CallRead ==
    LET r == read(State)
    IN  Return("read", "", [L |-> r.L, res |-> r.res, tok |-> None, front |-> None,
                            err |-> r.err, reads |-> 1, pushed |-> r.pushed,
                            eol |-> r.eol])

Next == CallNext \/ CallAsk \/ CallRead

Spec == Init /\ [][Next]_vars

(* ------------------------------- claims -------------------------------- *)

IsPrefix(s, t) == Len(s) <= Len(t) /\ SubSeq(t, 1, Len(s)) = s

AskRes(fnc, entry) == IF Apply(fnc, entry.token) THEN "True" ELSE "False"

\* C1: ask never consumes.  A call of ask never removes a queue entry; on a
\* non-empty queue it changes neither queue, input nor log and returns
\* fnc(front token); whenever it returns a value the token it judged is still
\* the front of the queue; an ask that follows an ask judges the same front
\* token, and a next that follows an ask returns exactly that token.
C1_AskNeverConsumes ==
    [][ /\ last'.op = "ask" =>
            /\ IsPrefix(queue, queue')
            /\ queue # <<>> =>
                  /\ queue' = queue /\ input' = input /\ log' = log
                  /\ last'.front = Some(Head(queue))
                  /\ last'.res = AskRes(last'.fnc, Head(queue))
            /\ (last'.res # "Err" /\ queue' # <<>>) =>
                  /\ last'.front = Some(Head(queue'))
                  /\ last'.res = AskRes(last'.fnc, Head(queue'))
            /\ (last.op = "ask" /\ last.front # None) => last'.front = last.front
        /\ (last.op = "ask" /\ last.front # None /\ last'.op = "next") =>
            /\ last'.res = "Some"
            /\ last'.tok = last.front ]_vars

\* C1 witness: ask judged, and answered False for, a token that an earlier
\* call had queued, and the token is still the front of the queue.
C1_Witness ==
    /\ last.op = "ask" /\ last.res = "False" /\ last.reads = 0
    /\ last.pre.queue # <<>> /\ queue = last.pre.queue
    /\ last.front = Some(Head(queue))

\* C2: next reads only when the queue is empty.  A next called on a non-empty
\* queue returns its front entry, removes exactly that entry and leaves the
\* input, the log, the comment stack and the open string unchanged.
C2_NextReadsOnlyWhenEmpty ==
    (last.op = "next" /\ last.pre.queue # <<>>) =>
        /\ last.res = "Some"
        /\ last.tok = Some(Head(last.pre.queue))
        /\ queue = Tail(last.pre.queue)
        /\ last.reads = 0
        /\ Len(input) = last.pre.ninput
        /\ Len(log) = last.pre.nlog
        /\ comment = last.pre.comment
        /\ string = last.pre.string

\* C2 witness: next served a token from a queue of two or more while the
\* reader still had lines to give.
C2_Witness ==
    /\ last.op = "next" /\ Len(last.pre.queue) >= 2
    /\ input # <<>> /\ last.res = "Some"

\* C3: with the input exhausted, the queue empty, no comment and no string
\* open, next returns None and ask returns false, each after exactly one read
\* attempt, and nothing changes.
C3_EndOfInput ==
    (/\ last.op \in {"next", "ask"}
     /\ last.pre.ninput = 0 /\ last.pre.queue = <<>>
     /\ last.pre.comment = <<>> /\ last.pre.string = None) =>
        /\ last.res = (IF last.op = "next" THEN "None" ELSE "False")
        /\ last.err = None /\ last.tok = None
        /\ last.reads = 1
        /\ queue = <<>> /\ comment = <<>> /\ string = None
        /\ Len(log) = last.pre.nlog

\* C3 witness: ask answered false at the end of a source that had lines.
C3_Witness ==
    /\ last.op = "ask" /\ last.res = "False"
    /\ last.pre.ninput = 0 /\ last.pre.queue = <<>>
    /\ last.pre.comment = <<>> /\ last.pre.string = None
    /\ Len(log) >= 2

ErrKind == IF last.err = None THEN "" ELSE last.err[1].kind

\* The character of the log at position p, "" when p is outside the log.
LogChar(p) ==
    IF p.line < Len(log) /\ p.byte < Len(log[p.line + 1])
    THEN log[p.line + 1][p.byte + 1] ELSE ""

\* C4: exhaustion with block-comment levels open fails with
\* UnterminatedComment positioned at the opening of the outermost open level
\* (the bottom of the stack the exhausted read found), at every depth.
C4_OutermostReported ==
    (/\ last.op \in {"next", "ask", "read"}
     /\ last.pre.ninput = 0 /\ last.pre.comment # <<>>
     /\ (last.op = "read" \/ last.pre.queue = <<>>)) =>
        /\ last.res = "Err"
        /\ last.err = Some(ErrPos("UnterminatedComment", last.pre.comment[1]))

\* C5: exhaustion with a string literal open fails with
\* UnterminatedStringLiteral at the position the literal was opened; that
\* position holds a quote in the log and no later quote of the log is
\* unescaped.
C5_UnterminatedString ==
    /\ (/\ last.op \in {"next", "ask", "read"}
        /\ last.pre.ninput = 0 /\ last.pre.string # None
        /\ (last.op = "read" \/ last.pre.queue = <<>>)) =>
            /\ last.res = "Err"
            /\ last.err = Some(ErrPos("UnterminatedStringLiteral",
                                      last.pre.string[1].pos))
    /\ ErrKind = "UnterminatedStringLiteral" =>
            LET p == last.err[1].pos[1]
            IN  /\ LogChar(p) = "\""
                /\ \A l \in p.line .. Len(log) - 1 :
                     \A b \in 0 .. Len(log[l + 1]) - 1 :
                        (PosLt(p, PosNew(l, b)) /\ log[l + 1][b + 1] = "\"")
                            => (b > 0 /\ log[l + 1][b] = "\\")

\* C5 witness: the literal reported was opened on an earlier line than the
\* last one read.
C5_Witness ==
    /\ ErrKind = "UnterminatedStringLiteral"
    /\ last.err[1].pos[1].line + 1 < Len(log)
    /\ last.pre.ninput = 0

\* C6: the log is exactly the lines read so far, verbatim and in reading
\* order (log followed by the unread input is the source), it never shrinks,
\* and a call adds one entry per line it took from the reader.
C6_LogIsLinesRead ==
    /\ log \o input = src
    /\ Len(log) >= last.pre.nlog
    /\ Len(log) - last.pre.nlog = last.pre.ninput - Len(input)

\* C6 witness: a line on which lexing failed is in the log, after another.
C6_Witness ==
    /\ last.res = "Err" /\ Len(log) > last.pre.nlog /\ Len(log) >= 2
    /\ ErrKind \in {"SingleAmpersand", "UnexpectedCharacter"}
    /\ log[Len(log)] = src[Len(log)]

\* Where the fault of an error lies: its position, or the start of its range.
FaultPos(e) == IF e.pos # None THEN e.pos ELSE IF e.range # None THEN <<e.range[1].start>> ELSE None

\* C7: a call that fails on a line keeps every token pushed before the fault:
\* the queue is what it was followed by the pushed tokens, which end on the
\* failing line at or before the fault, in source order.
C7_ErrorKeepsQueuedTokens ==
    (last.res = "Err" /\ Len(log) > last.pre.nlog) =>
        /\ IsPrefix(last.pre.queue, queue)
        /\ Len(queue) = Len(last.pre.queue) + last.pushed
        /\ last.op \in {"next", "ask"} => last.pre.queue = <<>>
        /\ \A i \in Len(last.pre.queue) + 1 .. Len(queue) :
              /\ queue[i].range.end.line = Len(log) - 1
              /\ PosLt(queue[i].range.start, queue[i].range.end)
              /\ FaultPos(last.err[1]) # None =>
                    PosLe(queue[i].range.end, FaultPos(last.err[1])[1])
              /\ \A j \in i + 1 .. Len(queue) :
                    PosLe(queue[i].range.end, queue[j].range.start)

\* C7 witness: next failed on a line after two of its tokens were queued.
C7_Witness ==
    /\ last.op = "next" /\ last.res = "Err" /\ last.pushed >= 2
    /\ Len(queue) = 2 /\ ErrKind = "SingleAmpersand"

\* The errors a lexer returns when its caller keeps reading until the reader
\* is exhausted and read answers Ok(false).
RECURSIVE Errors(_)
Errors(L) ==
    LET r == read(L)
    IN  IF r.res = "False" THEN <<>>
        ELSE (IF r.res = "Err" THEN r.err ELSE <<>>) \o Errors(r.L)

\* The source lines with a line terminator appended to the last one.
WithTerminator(lines) == [lines EXCEPT ![Len(lines)] = Append(@, "\n")]

LastLine == log[Len(log)]

\* The position just after the last character of the last line read.
EndOfLastLine == PosNew(Len(log) - 1, Len(LastLine))

\* The last line read would, with a terminator appended, have a token ended
\* by that terminator: run from the same state pushes one more token, ending
\* there, or fails with a range ending there.
EndsMidToken ==
    LET r == Run(last.pre.comment, last.pre.string, Len(log) - 1,
                 Append(LastLine, "\n"), last.pre.queue)
    IN  \/ /\ r.status = "ok" /\ r.queue # <<>>
           /\ r.queue[Len(r.queue)].range.end = EndOfLastLine
        \/ /\ r.status = "err" /\ r.err[1].range # None
           /\ r.err[1].range[1].end = EndOfLastLine

\* C8 as stated: a source that fails with NoLineFeedAtEOF, and with nothing
\* else, is tokenized with no error once the terminator is appended.
C8_TerminatorAlwaysSucceeds ==
    (ErrKind = "NoLineFeedAtEOF" /\ Len(Errors(LexerNew(log))) = 1) =>
        Errors(LexerNew(WithTerminator(log))) = <<>>

\* C8 amended: a final line without terminator fails with NoLineFeedAtEOF
\* exactly when it ends in the middle of a token; with the terminator
\* appended the source gives the same errors less that one, unless the open
\* token is a lone ampersand, a lone dot or a number ending in its exponent
\* marker or sign: then the terminator finalizes it into SingleAmpersand,
\* SingleDot or IncompleteScientificNotation over the token.
C8_NoLineFeedAtEOF ==
    /\ (last.op = "read" /\ Len(log) > last.pre.nlog
            /\ LastLine[Len(LastLine)] # "\n") =>
          (ErrKind = "NoLineFeedAtEOF" <=> EndsMidToken)
    /\ ErrKind = "NoLineFeedAtEOF" =>
          /\ input = <<>>
          /\ LastLine[Len(LastLine)] # "\n"
          /\ last.eol # None
          /\ LET E  == Errors(LexerNew(log))
                 F  == Errors(LexerNew(WithTerminator(log)))
                 e  == ErrorOfState(last.eol[1].state)
             IN  /\ E # <<>> /\ E[Len(E)] = ErrBare("NoLineFeedAtEOF")
                 /\ F = IF e = "" THEN Front(E)
                        ELSE Append(Front(E),
                                    ErrRange(e, RangeNew(last.eol[1].start,
                                                         EndOfLastLine)))

\* C8 witness: the second line of a source ends inside an identifier, and
\* the source with the terminator appended has no error.
C8_Witness ==
    /\ ErrKind = "NoLineFeedAtEOF" /\ Len(log) >= 2
    /\ last.eol[1].state = "Identifier"
    /\ Errors(LexerNew(WithTerminator(log))) = <<>>

\* The places of a line where character a is directly followed by b.
Pairs(line, a, b) == {i \in 1 .. Len(line) - 1 : line[i] = a /\ line[i + 1] = b}

Count(line, a, b) == Cardinality(Pairs(line, a, b))

\* No two of the sequences /* and */ of the line share a character, and the
\* line has no //.
Disjoint(line) ==
    /\ Pairs(line, "/", "/") = {}
    /\ \A i \in Pairs(line, "/", "*") : i + 1 \notin Pairs(line, "*", "/")
    /\ \A i \in Pairs(line, "*", "/") : i + 1 \notin Pairs(line, "/", "*")

\* d closing sequences, and as many spaces.
RECURSIVE Closers(_)
Closers(d) == IF d = 0 THEN <<>> ELSE <<"*", "/">> \o Closers(d - 1)

RECURSIVE Blanks(_)
Blanks(n) == IF n = 0 THEN <<>> ELSE <<" ">> \o Blanks(n - 1)

\* The last call was a read that took exactly one line.
ReadOneLine == last.op = "read" /\ Len(log) = last.pre.nlog + 1

NestingSample ==
    <<"/", "*", " ", "/", "*", " ", "*", "/", " ", "*", "/", " ", "a", "\n">>

\* C9: block comments nest.  For a line read at depth d >= 1: without a */
\* it pushes no token and closes no level; when its /* and */ do not overlap
\* and its */ are fewer than d, the depth becomes d + #/* - #*/, the closed
\* levels being the innermost, and no token is pushed; when it starts with
\* exactly d closing sequences, the rest is tokenized as if the comment were
\* blanks.  The line /* /* */ */ a yields the identifier a alone.
C9_CommentsNest ==
    /\ (ReadOneLine /\ last.pre.comment # <<>>) =>
          LET d    == Len(last.pre.comment)
              line == LastLine
              opens  == Count(line, "/", "*")
              closes == Count(line, "*", "/")
          IN  /\ closes = 0 =>
                    /\ queue = last.pre.queue /\ last.res = "True"
                    /\ IsPrefix(last.pre.comment, comment)
              /\ (Disjoint(line) /\ closes < d) =>
                    /\ Len(comment) = d + opens - closes
                    /\ opens = 0 => comment = SubSeq(last.pre.comment, 1, d - closes)
                    /\ queue = last.pre.queue /\ last.res = "True"
              /\ (Len(line) >= 2 * d /\ SubSeq(line, 1, 2 * d) = Closers(d)) =>
                    LET r == Run(<<>>, None, Len(log) - 1,
                                 Blanks(2 * d) \o SubSeq(line, 2 * d + 1, Len(line)),
                                 last.pre.queue)
                    IN  /\ comment = r.comment /\ string = r.string
                        /\ queue = r.queue /\ last.err = r.err
    /\ (ReadOneLine /\ log = <<NestingSample>>) =>
          /\ comment = <<>> /\ string = None /\ last.res = "True"
          /\ queue = <<[range |-> RangeNew(PosNew(0, 12), PosNew(0, 13)),
                       token |-> Tok("Identifier", <<"a">>)]>>

\* C9 witness: a line read at depth 2 or more closed every level and its
\* trailer was tokenized.
C9_Witness ==
    /\ ReadOneLine /\ Len(last.pre.comment) >= 2
    /\ comment = <<>> /\ Len(queue) > Len(last.pre.queue)
    /\ last.res = "True"

\* At place k + 1 of the line starts a // that the automaton meets inside a
\* block comment: what precedes it ends with a blank (or is empty) and, run
\* alone from the state the line was read in, leaves a comment open.
LineCommentInBlock(line, k) ==
    /\ k + 2 <= Len(line)
    /\ line[k + 1] = "/" /\ line[k + 2] = "/"
    /\ (k = 0 \/ line[k] = " ")
    /\ LET r == Run(last.pre.comment, last.pre.string, Len(log) - 1,
                    SubSeq(line, 1, k), last.pre.queue)
       IN  r.status = "ok" /\ r.comment # <<>>

\* C10: a // met inside a block comment suppresses the rest of its line only:
\* the line leaves the comment stack, the open string and the queue as they
\* were when the // was met, whatever follows it, and the read succeeds.
C10_LineCommentInBlockComment ==
    ReadOneLine =>
        \A k \in 0 .. Len(LastLine) :
            LineCommentInBlock(LastLine, k) =>
                LET r == Run(last.pre.comment, last.pre.string, Len(log) - 1,
                             SubSeq(LastLine, 1, k), last.pre.queue)
                IN  /\ comment = r.comment /\ comment # <<>>
                    /\ string = r.string /\ queue = r.queue
                    /\ last.res = "True"

\* C10 witness: a closing sequence follows the // on the line, and the
\* comment is still open after the line.
C10_Witness ==
    /\ ReadOneLine /\ comment # <<>>
    /\ \E k \in 0 .. Len(LastLine) :
          /\ LineCommentInBlock(LastLine, k)
          /\ \E j \in Pairs(LastLine, "*", "/") : j > k + 2

(* ------------------- specifications over other sources ----------------- *)

\* A new lexer over one of the given source texts.
InitOver(texts) ==
    /\ src \in {SplitLines(t) : t \in texts}
    /\ input = src
    /\ log = <<>>
    /\ comment = <<>>
    /\ string = None
    /\ queue = <<>>
    /\ last = [op |-> "new", fnc |-> "", res |-> "", tok |-> None, front |-> None,
               err |-> None, reads |-> 0, pushed |-> 0, eol |-> None, pre |-> Pre]

\* All texts of at most n characters of the set chars.
TextsOver(chars, n) == UNION {[1..k -> chars] : k \in 0..n}

\* The tokens the last call pushed to the queue.
NewTokens == SubSeq(queue, Len(last.pre.queue) + 1, Len(queue))

\* The last call was a read of one line by an automaton with no comment and
\* no string open.
ReadOneLineOutside ==
    /\ last.op = "read" /\ Len(log) = last.pre.nlog + 1
    /\ last.pre.comment = <<>> /\ last.pre.string = None

\* Longest identifier text enumerated exhaustively.
MaxIdentLen == 4

IdentAlphabet == {"i", "f", "$", "_", "1", " ", "\n"}

IdentSamples ==
    { <<"i", "f", "\n">>, <<"e", "l", "s", "e", "\n">>,
      <<"w", "h", "i", "l", "e", "\n">>, <<"f", "o", "r", "\n">>,
      <<"l", "e", "t", "\n">>, <<"d", "e", "f", "\n">>,
      <<"b", "r", "e", "a", "k", "\n">>,
      <<"c", "o", "n", "t", "i", "n", "u", "e", "\n">>,
      <<"r", "e", "t", "u", "r", "n", "\n">>,
      <<"i", "d", "e", "n", "t", " ">>, <<"$", "p", "a", "r", "a", "m", " ">>,
      <<"w", "h", "i", "l", "e", "1", "(", "\n">>, <<"I", "f", "\n">>,
      <<"e", "l", "s", "e", "$", "\"", "\n">>, <<"$", "l", "e", "t", ";", "\n">>,
      <<"r", "e", "t", "u", "r", "n", "\\", "\n">>,
      <<"i", "f", " ", "i", "f", "f", " ", "$", "i", "f", "\n">> }

IdentInputs == TextsOver(IdentAlphabet, MaxIdentLen) \cup IdentSamples

SpecIdent == InitOver(IdentInputs) /\ [][Next]_vars

\* The reserved words and the token of each.
ReservedWord ==
    (<<"i", "f">> :> "KeywordIf") @@ (<<"e", "l", "s", "e">> :> "KeywordElse")
    @@ (<<"w", "h", "i", "l", "e">> :> "KeywordWhile")
    @@ (<<"f", "o", "r">> :> "KeywordFor") @@ (<<"l", "e", "t">> :> "KeywordLet")
    @@ (<<"d", "e", "f">> :> "KeywordDef")
    @@ (<<"b", "r", "e", "a", "k">> :> "KeywordBreak")
    @@ (<<"c", "o", "n", "t", "i", "n", "u", "e">> :> "KeywordContinue")
    @@ (<<"r", "e", "t", "u", "r", "n">> :> "KeywordReturn")

\* [A-Za-z_][A-Za-z0-9_$]* and \$[A-Za-z0-9_$]*.
IsIdentifierText(w) ==
    /\ Len(w) >= 1 /\ w[1] \in Letters
    /\ \A i \in 2 .. Len(w) : w[i] \in Letters \cup Digits \cup {"$"}

IsParameterText(w) ==
    /\ Len(w) >= 1 /\ w[1] = "$"
    /\ \A i \in 2 .. Len(w) : w[i] \in Letters \cup Digits \cup {"$"}

\* The line holds the word w from its first character on, followed by a
\* character that is no identifier character.
StartsWithWord(line, n) ==
    /\ 1 <= n /\ n < Len(line)
    /\ line[n + 1] \notin Letters \cup Digits \cup {"$"}

\* C11: identifier classification.  A line read outside comments and strings
\* that starts with an identifier text followed by a non-identifier
\* character has as its first token the keyword token when the text is a
\* reserved word, else the identifier carrying the text; a text starting
\* with $ gives the parameter token carrying it, reserved word or not.  The
\* token spans the text.
C11_IdentifierClassification ==
    ReadOneLineOutside =>
        \A n \in 1 .. Len(LastLine) - 1 :
            LET w == SubSeq(LastLine, 1, n)
                range == RangeNew(PosNew(Len(log) - 1, 0), PosNew(Len(log) - 1, n))
            IN  /\ (IsIdentifierText(w) /\ StartsWithWord(LastLine, n)) =>
                      /\ NewTokens # <<>>
                      /\ NewTokens[1].range = range
                      /\ NewTokens[1].token =
                            IF w \in DOMAIN ReservedWord
                            THEN Tok(ReservedWord[w], <<>>)
                            ELSE Tok("Identifier", w)
                /\ (IsParameterText(w) /\ StartsWithWord(LastLine, n)) =>
                      /\ NewTokens # <<>>
                      /\ NewTokens[1].range = range
                      /\ NewTokens[1].token = Tok("Parameter", w)

\* C11 witness: the line "if iff $if" gave the keyword, the identifier iff
\* and the parameter $if.
C11_Witness ==
    /\ ReadOneLineOutside /\ Len(NewTokens) = 3
    /\ NewTokens[1].token = Tok("KeywordIf", <<>>)
    /\ NewTokens[2].token = Tok("Identifier", <<"i", "f", "f">>)
    /\ NewTokens[3].token = Tok("Parameter", <<"$", "i", "f">>)

\* Longest operator text enumerated exhaustively.
MaxOpLen == 2

OpAlphabet ==
    {"+", "-", ">", "*", "/", "%", "^", "=", "!", "<", "&", "|", ":", ";", ",",
     "?", "(", ")", "[", "]", "{", "}", " ", "\n"}

\* The operator texts of tests::operators.
OpTexts ==
    { <<"+">>, <<"-">>, <<"-", ">">>, <<"*">>, <<"/">>, <<"%">>, <<"^">>,
      <<"=">>, <<"=", ">">>, <<"=", "=">>, <<"!">>, <<"!", "=">>, <<"<">>,
      <<"<", "<">>, <<">">>, <<">", ">">>, <<"&", "&">>, <<"|">>, <<"|", "|">>,
      <<":">>, <<";">>, <<",">>, <<"?">>, <<"(">>, <<")">>, <<"[">>, <<"]">>,
      <<"{">>, <<"}">> }

OpSamples ==
    {op \o <<ws>> : op \in OpTexts, ws \in {" ", "\n", "\t"}}
    \cup { <<"&", " ">>, <<"&", "&", "&", "\n">>, <<"a", "&", "b", "\n">>,
           <<"&", "&", "a", "\n">>, <<" ", "&", "&", "(", "\n">>,
           <<"-", ">", ">", "\n">>, <<"=", "=", ">", "\n">>,
           <<"<", "<", "<", "\n">>, <<"!", "=", "=", "\n">>,
           <<" ", " ", "|", "|", "\n">>, <<"\"", "&", "\"", "\n">>,
           <<"/", "*", "&", "*", "/", "&", "\n">>, <<"/", "/", "&", "\n">>,
           <<"&", "&", "\n", "&">> }

OpInputs == TextsOver(OpAlphabet, MaxOpLen) \cup OpSamples

SpecOps == InitOver(OpInputs) /\ [][Next]_vars

\* The token of each operator text.
OperatorToken ==
    (<<"+">> :> "Plus") @@ (<<"-">> :> "Hyphen") @@ (<<"-", ">">> :> "HyphenGreater")
    @@ (<<"*">> :> "Asterisk") @@ (<<"/">> :> "Slash") @@ (<<"%">> :> "Percent")
    @@ (<<"^">> :> "Circumflex") @@ (<<"=">> :> "Equal")
    @@ (<<"=", ">">> :> "EqualGreater") @@ (<<"=", "=">> :> "DoubleEqual")
    @@ (<<"!">> :> "Exclamation") @@ (<<"!", "=">> :> "ExclamationEqual")
    @@ (<<"<">> :> "Less") @@ (<<"<", "<">> :> "DoubleLess")
    @@ (<<">">> :> "Greater") @@ (<<">", ">">> :> "DoubleGreater")
    @@ (<<"&", "&">> :> "DoubleAmpersand") @@ (<<"|">> :> "Bar")
    @@ (<<"|", "|">> :> "DoubleBar") @@ (<<":">> :> "Colon")
    @@ (<<";">> :> "Semicolon") @@ (<<",">> :> "Comma") @@ (<<"?">> :> "Question")
    @@ (<<"(">> :> "OpeningParenthesis") @@ (<<")">> :> "ClosingParenthesis")
    @@ (<<"[">> :> "OpeningBracket") @@ (<<"]">> :> "ClosingBracket")
    @@ (<<"{">> :> "OpeningBrace") @@ (<<"}">> :> "ClosingBrace")

\* The line holds, after k blanks, the text op followed by whitespace.
OperatorAt(line, k, op) ==
    /\ k + Len(op) < Len(line)
    /\ \A i \in 1 .. k : line[i] = " "
    /\ SubSeq(line, k + 1, k + Len(op)) = op
    /\ line[k + Len(op) + 1] \in Whitespace

\* C12: maximal munch.  A line read outside comments and strings that holds,
\* after blanks only, an operator text followed by whitespace has as its
\* first token the one token of that text, spanning the whole text; when
\* nothing follows the whitespace it is the only token of the line.
C12_MaximalMunch ==
    ReadOneLineOutside =>
        \A op \in DOMAIN OperatorToken : \A k \in 0 .. Len(LastLine) :
            OperatorAt(LastLine, k, op) =>
                /\ NewTokens # <<>>
                /\ NewTokens[1] =
                      [range |-> RangeNew(PosNew(Len(log) - 1, k),
                                          PosNew(Len(log) - 1, k + Len(op))),
                       token |-> Tok(OperatorToken[op], <<>>)]
                /\ Len(LastLine) = k + Len(op) + 1 => Len(NewTokens) = 1

\* C12 witness: the line "-> " gave the one token HyphenGreater.
C12_Witness ==
    /\ ReadOneLineOutside /\ LastLine = <<"-", ">", " ">>
    /\ Len(NewTokens) = 1 /\ NewTokens[1].token = Tok("HyphenGreater", <<>>)
    /\ last.res = "True"

\* The automaton of the last read meets character k of the line outside
\* comments and strings, every token before it being ended: the k - 1
\* characters before it, closed by a blank, are processed to the end without
\* a fault and leave no comment and no string open.
BeforeChar(k) ==
    Run(last.pre.comment, last.pre.string, Len(log) - 1,
        SubSeq(LastLine, 1, k - 1) \o <<" ">>, last.pre.queue)

MetOutside(k) ==
    /\ last.op = "read" /\ Len(log) = last.pre.nlog + 1
    /\ k \in 1 .. Len(LastLine)
    /\ BeforeChar(k).status = "ok" /\ BeforeChar(k).i > k
    /\ BeforeChar(k).comment = <<>> /\ BeforeChar(k).string = None

\* The range of the bytes from .. to (exclusive) of the last line read.
RangeOnLastLine(from, to) ==
    RangeNew(PosNew(Len(log) - 1, from), PosNew(Len(log) - 1, to))

\* An & met outside comments and strings and followed by a character other
\* than & fails the line with SingleAmpersand over the &, with no token for it.
LoneAmpersandFails(k) ==
    /\ last.res = "Err"
    /\ last.err = Some(ErrRange("SingleAmpersand", RangeOnLastLine(k - 1, k)))
    /\ queue = BeforeChar(k).queue

\* && met outside comments and strings and followed by a character is the
\* one token DoubleAmpersand over the two characters.
DoubleAmpersandToken(k) ==
    /\ Len(queue) > Len(BeforeChar(k).queue)
    /\ SubSeq(queue, 1, Len(BeforeChar(k).queue)) = BeforeChar(k).queue
    /\ queue[Len(BeforeChar(k).queue) + 1] =
          [range |-> RangeOnLastLine(k - 1, k + 1),
           token |-> Tok("DoubleAmpersand", <<>>)]

\* C14 as stated: every & met outside comments and strings and not followed
\* by another & fails the line with SingleAmpersand starting at the &.
C14_LoneAmpersandAlwaysSingleAmpersand ==
    ReadOneLine => \A k \in 1 .. Len(LastLine) :
        (MetOutside(k) /\ LastLine[k] = "&"
         /\ (k = Len(LastLine) \/ LastLine[k + 1] # "&")) =>
            /\ last.res = "Err" /\ ErrKind = "SingleAmpersand"
            /\ last.err[1].range[1].start = PosNew(Len(log) - 1, k - 1)

\* C14: an & met outside comments and strings never yields a token of its
\* own.  Followed by a character other than &, it fails the line with
\* SingleAmpersand over the &; as the last character of a final line that
\* has no terminator, it fails the line with NoLineFeedAtEOF; followed by &
\* and then any character, the two are the one token DoubleAmpersand.
C14_Ampersand ==
    ReadOneLine => \A k \in 1 .. Len(LastLine) :
        (MetOutside(k) /\ LastLine[k] = "&") =>
            /\ (k < Len(LastLine) /\ LastLine[k + 1] # "&") => LoneAmpersandFails(k)
            /\ k = Len(LastLine) =>
                  /\ last.res = "Err" /\ ErrKind = "NoLineFeedAtEOF"
                  /\ queue = BeforeChar(k).queue
            /\ (k + 1 < Len(LastLine) /\ LastLine[k + 1] = "&") =>
                  DoubleAmpersandToken(k)
            /\ \A i \in 1 .. Len(queue) : queue[i].token.kind # "Ampersand"

\* C14 witness: the line "a&b" queued the identifier a and failed with
\* SingleAmpersand over the &.
C14_Witness ==
    /\ MetOutside(2) /\ LastLine = <<"a", "&", "b", "\n">>
    /\ LoneAmpersandFails(2) /\ Len(queue) = 1

\* Longest numeric text enumerated exhaustively.
MaxNumLen == 5

NumAlphabet == {"1", ".", "e", "+", "\n"}

NumSamples ==
    { <<"4", "2", " ">>, <<"4", "2", ".", " ">>, <<"4", "2", ".", "0", " ">>,
      <<"4", "2", "e", "0", " ">>, <<"4", "2", ".", "e", "0", " ">>,
      <<"4", "2", ".", "0", "e", "0", " ">>, <<"4", "2", ".", "0", "e", "+", "0", " ">>,
      <<"4", "2", ".", "0", "e", "-", "0", " ">>, <<"1", "E", "5", "\n">>,
      <<"1", "e">>, <<"1", ".", "5", "e", "+">>, <<"1", ".", "5", "e", "+", " ">>,
      <<"1", "E", "-", ")", "\n">>, <<" ", ".", "5", ";", "\n">>,
      <<" ", " ", "1", "e", "5", "e", "\n">>, <<"a", "1", ".", "\n">>,
      <<"1", "e", "1", ".", "\n">>, <<"1", ".", "1", ".", "1", "\n">>,
      <<"x", ".", "y", "\n">>, <<".", " ">>, <<"1", "-", "1", "\n">>,
      <<"\"", ".", "\"", "\n">>, <<"/", "/", ".", "\n">>, <<"1", ".", "\n", ".">> }

NumInputs == TextsOver(NumAlphabet, MaxNumLen) \cup NumSamples

SpecNum == InitOver(NumInputs) /\ [][Next]_vars

IsDigits(s) == \A i \in 1 .. Len(s) : s[i] \in Digits

\* digits | digits '.' digits* | '.' digits
IsMantissa(s) ==
    \/ Len(s) >= 1 /\ IsDigits(s)
    \/ /\ Len(s) >= 2
       /\ \E k \in 1 .. Len(s) :
            /\ s[k] = "."
            /\ IsDigits(SubSeq(s, 1, k - 1)) /\ IsDigits(SubSeq(s, k + 1, Len(s)))

\* [eE][+-]?digits
IsExponent(s) ==
    /\ Len(s) >= 2 /\ s[1] \in {"e", "E"}
    /\ \/ IsDigits(SubSeq(s, 2, Len(s)))
       \/ Len(s) >= 3 /\ s[2] \in {"+", "-"} /\ IsDigits(SubSeq(s, 3, Len(s)))

IsNumberText(s) ==
    \/ IsMantissa(s)
    \/ \E k \in 1 .. Len(s) :
          IsMantissa(SubSeq(s, 1, k)) /\ IsExponent(SubSeq(s, k + 1, Len(s)))

\* A mantissa followed by the exponent marker, or by the marker and a sign.
IsIncompleteText(s) ==
    \E k \in 1 .. Len(s) :
        /\ IsMantissa(SubSeq(s, 1, k))
        /\ Len(s) - k \in {1, 2}
        /\ s[k + 1] \in {"e", "E"}
        /\ Len(s) - k = 2 => s[k + 2] \in {"+", "-"}

\* The line holds, after k blanks, the run of n characters followed by a
\* character that does not extend it.
RunAt(line, k, n) ==
    /\ n >= 1 /\ k + n < Len(line)
    /\ \A i \in 1 .. k : line[i] = " "
    /\ ~IsNumberText(SubSeq(line, k + 1, k + n + 1))
    /\ ~IsIncompleteText(SubSeq(line, k + 1, k + n + 1))

\* C13: numeric grammar.  A line read outside comments and strings that
\* holds, after blanks only, a maximal run of the numeric grammar ended by a
\* character that does not extend it has as its first token the one Number
\* of that text, spanning the run; a run that stops after the exponent
\* marker or the exponent sign fails the line with
\* IncompleteScientificNotation over the run, and no token is queued.
C13_NumericGrammar ==
    ReadOneLineOutside =>
        \A k \in 0 .. Len(LastLine) : \A n \in 1 .. Len(LastLine) :
            RunAt(LastLine, k, n) =>
                LET run == SubSeq(LastLine, k + 1, k + n)
                IN  /\ IsNumberText(run) =>
                          /\ NewTokens # <<>>
                          /\ NewTokens[1] = [range |-> RangeOnLastLine(k, k + n),
                                             token |-> Tok("Number", run)]
                    /\ IsIncompleteText(run) =>
                          /\ last.res = "Err"
                          /\ last.err = Some(ErrRange("IncompleteScientificNotation",
                                                      RangeOnLastLine(k, k + n)))
                          /\ NewTokens = <<>>

\* C13 witness: the line "42.0e+0 " is one Number over its seven characters.
C13_Witness ==
    /\ ReadOneLineOutside
    /\ LastLine = <<"4", "2", ".", "0", "e", "+", "0", " ">>
    /\ Len(NewTokens) = 1 /\ NewTokens[1].range = RangeOnLastLine(0, 7)
    /\ NewTokens[1].token.kind = "Number"

\* The line failed with SingleDot over the dot that is character k.
SingleDotAt(k) ==
    /\ last.res = "Err"
    /\ last.err = Some(ErrRange("SingleDot", RangeOnLastLine(k - 1, k)))

FollowedByDigit(k) == k < Len(LastLine) /\ LastLine[k + 1] \in Digits

PrecededByDigit(k) == k > 1 /\ LastLine[k - 1] \in Digits

\* The token ended just before character k is an integer: a Number whose
\* text is digits only.
AttachedToInteger(k) ==
    LET q == BeforeChar(k).queue
    IN  /\ Len(q) > Len(last.pre.queue)
        /\ q[Len(q)].range.end = PosNew(Len(log) - 1, k - 1)
        /\ q[Len(q)].token.kind = "Number" /\ IsDigits(q[Len(q)].token.text)

\* The queued tokens whose range covers the character k of the last line.
TokensOver(k) ==
    {i \in 1 .. Len(queue) :
        /\ PosLe(queue[i].range.start, PosNew(Len(log) - 1, k - 1))
        /\ PosLt(PosNew(Len(log) - 1, k - 1), queue[i].range.end)}

\* C15 as stated: a dot met outside comments and strings is reported as
\* SingleDot exactly when no digit follows it and no digit precedes it.
C15_SingleDotIffNoDigitAround ==
    ReadOneLine => \A k \in 1 .. Len(LastLine) :
        (MetOutside(k) /\ LastLine[k] = ".") =>
            (SingleDotAt(k) <=> (~FollowedByDigit(k) /\ ~PrecededByDigit(k)))

\* C15: a dot met outside comments and strings is reported as SingleDot
\* exactly when a character that is no digit follows it and it is not
\* attached to an integer directly before it.  A dot followed by a digit or
\* attached to an integer raises no SingleDot and is covered by Number
\* tokens only, by one when the line has no fault; a dot that is neither and
\* is the last character of a final line without terminator gives
\* NoLineFeedAtEOF.
C15_SingleDot ==
    ReadOneLine => \A k \in 1 .. Len(LastLine) :
        (MetOutside(k) /\ LastLine[k] = ".") =>
            /\ SingleDotAt(k) <=>
                  (/\ k < Len(LastLine) /\ ~FollowedByDigit(k)
                   /\ ~AttachedToInteger(k))
            /\ (FollowedByDigit(k) \/ AttachedToInteger(k)) =>
                  /\ \A i \in TokensOver(k) : queue[i].token.kind = "Number"
                  /\ last.res = "True" => TokensOver(k) # {}
            /\ (k = Len(LastLine) /\ ~AttachedToInteger(k)) =>
                  ErrKind = "NoLineFeedAtEOF"

\* C15 witness: in the line "1.1." the second dot follows a digit and is
\* reported as SingleDot, after the Number 1.1 was queued.
C15_Witness ==
    /\ MetOutside(4) /\ LastLine = <<"1", ".", "1", ".", "\n">>
    /\ SingleDotAt(4) /\ PrecededByDigit(4)
    /\ Len(NewTokens) = 1 /\ NewTokens[1].token = Tok("Number", <<"1", ".", "1">>)

\* Longest string-literal text enumerated exhaustively.
MaxStrLen == 5

StrAlphabet == {"\"", "\\", "n", " ", "\n"}

StrSamples ==
    { <<"\"", "s", "t", "r", "\"", " ">>,
      <<"\"", "a", "\\", "t", "\\", "r", "\\", "0", "\\", "\\", "\\", "\"", "\"", ";", "\n">>,
      <<"\"", "\\", "n", "\\", "x", "\"", "\"", "\"", "\n">>,
      <<"\"", "a", "\n", "b", "\\", "\n", "c", "\"", "&", "\n">>,
      <<"\"", "\"", "\n">>, <<"\"", "/", "*", "\"", "\\", "\n">>,
      <<"\"", "\\", "\\", "\"", "\n">>, <<"\"", "\\">>, <<"\"", "a", "\"">> }

StrInputs == TextsOver(StrAlphabet, MaxStrLen) \cup StrSamples

SpecStr == InitOver(StrInputs) /\ [][Next]_vars

\* The character an escaped character stands for.
EscapedChar ==
    [c \in {"n", "r", "t", "0"} |->
        IF c = "n" THEN "\n" ELSE IF c = "r" THEN "\r"
        ELSE IF c = "t" THEN "\t" ELSE "NUL"]

\* The text of the literal opened just before index i of text t, read up to
\* the first quote that no backslash escapes: text so far in acc; close is
\* the index of that quote, 0 when the literal is not closed in t.
RECURSIVE Decode(_, _, _)
Decode(t, i, acc) ==
    IF i > Len(t) THEN [text |-> acc, close |-> 0]
    ELSE IF t[i] = "\"" THEN [text |-> acc, close |-> i]
    ELSE IF t[i] # "\\" THEN Decode(t, i + 1, Append(acc, t[i]))
    ELSE IF i = Len(t) THEN [text |-> acc, close |-> 0]
    ELSE Decode(t, i + 2,
                Append(acc, IF t[i + 1] \in DOMAIN EscapedChar
                            THEN EscapedChar[t[i + 1]] ELSE t[i + 1]))

\* The lines of the log as one text.
RECURSIVE Flatten(_)
Flatten(lines) ==
    IF lines = <<>> THEN <<>> ELSE Head(lines) \o Flatten(Tail(lines))

\* The position in the log of character j of Flatten(log).
RECURSIVE PosInLines(_, _, _)
PosInLines(lines, n, j) ==
    IF j <= Len(Head(lines)) THEN PosNew(n, j - 1)
    ELSE PosInLines(Tail(lines), n + 1, j - Len(Head(lines)))

\* C16: string decoding.  When the first call of next on a new lexer read a
\* text that starts with a quote, whose literal is closed by the first quote
\* no backslash escapes, and a character follows that closing quote, then the
\* first token is the one String from the opening quote to that character,
\* and its text is the characters between the quotes with each backslash and
\* the character after it replaced by what that character stands for.
C16_StringDecoding ==
    (last.op = "next" /\ last.pre.nlog = 0 /\ log # <<>>) =>
        LET t == Flatten(log)
            d == Decode(t, 2, <<>>)
            tk == [range |-> RangeNew(PosNew(0, 0), PosInLines(log, 0, d.close + 1)),
                   token |-> Tok("String", d.text)]
        IN  (t[1] = "\"" /\ d.close > 0 /\ d.close < Len(t)) =>
                /\ last.res \in {"Some", "Err"}
                /\ last.res = "Some" => last.tok = Some(tk) /\ last.pushed >= 1
                /\ last.res = "Err" => queue # <<>> /\ queue[1] = tk

\* C16 witness: next returned the String of the text a, LF, b, backslash-LF
\* taken for LF, c from a literal over three lines.
C16_Witness ==
    /\ last.op = "next" /\ last.pre.nlog = 0 /\ Len(log) = 3
    /\ last.res = "Err" /\ ErrKind = "SingleAmpersand"
    /\ queue[1].token = Tok("String", <<"a", "\n", "b", "\n", "c">>)
    /\ queue[1].range = RangeNew(PosNew(0, 0), PosNew(2, 2))

(* -------------------------- Range concatenation ------------------------ *)

\* Largest line number and byte index of the positions concatenated.
MaxLine == 1

MaxByte == 2

Positions == {PosNew(l, b) : l \in 0 .. MaxLine, b \in 0 .. MaxByte}

\* The ranges a caller can hold.  With debug assertions every Range went
\* through the assertion of Range::new; without them nothing ever checked
\* the order of its ends.
Ranges(debug) ==
    {RangeNew(x[1], x[2]) :
        x \in {y \in Positions \X Positions : debug => PosLe(y[1], y[2])}}

\* Range::new in a build with or without debug assertions: None stands for
\* the panic of the assertion.
RangeNewChecked(debug, start, end) ==
    IF debug /\ ~PosLe(start, end) THEN None ELSE Some(RangeNew(start, end))

AddImpls == {"Range + Range", "Range + &Range", "&Range + Range", "&Range + &Range"}

\* RangeAdd that compares the starts of the two ranges.
RangeAddCompareStarts(impl, debug, a, b) ==
    IF debug /\ ~PosLe(a.start, b.start) THEN None
    ELSE RangeNewChecked(debug, a.start, b.end)

\* The four impl Add: the assertion, then Range::new(self.start, other.end).
RangeAdd(impl, debug, a, b) ==
    CASE impl = "Range + Range" ->
            IF debug /\ ~PosLe(a.end, b.start) THEN None
            ELSE RangeNewChecked(debug, a.start, b.end)
      [] impl = "Range + &Range" ->
            IF debug /\ ~PosLe(a.end, b.start) THEN None
            ELSE RangeNewChecked(debug, a.start, b.end)
      [] impl = "&Range + Range" ->
            IF debug /\ ~PosLe(a.end, b.start) THEN None
            ELSE RangeNewChecked(debug, a.start, b.end)
      [] impl = "&Range + &Range" ->
            IF debug /\ ~PosLe(a.end, b.start) THEN None
            ELSE RangeNewChecked(debug, a.start, b.end)

\* A caller holds two ranges a and b and is about to evaluate a + b with one
\* of the four impls; the lexer is a new one over the empty source.
InitRange ==
    /\ src = <<>> /\ input = <<>> /\ log = <<>>
    /\ comment = <<>> /\ string = None /\ queue = <<>>
    /\ \E impl \in AddImpls, debug \in BOOLEAN :
         \E a \in Ranges(debug), b \in Ranges(debug) :
            last = [op |-> "ranges", impl |-> impl, debug |-> debug, a |-> a, b |-> b]

\* The caller evaluates a + b; last records the operands and the outcome.
CallAdd ==
    /\ last.op = "ranges"
    /\ last' = [op |-> "add", impl |-> last.impl, debug |-> last.debug,
                a |-> last.a, b |-> last.b,
                sum |-> RangeAdd(last.impl, last.debug, last.a, last.b)]
    /\ UNCHANGED <<input, log, comment, string, queue, src>>

SpecRange == InitRange /\ [][CallAdd]_vars

\* C17 as stated: a + b is (a.start, b.end) when a.end <= b.start and never
\* returns a range when a.end > b.start.
C17_OutOfOrderAlwaysRejected ==
    last.op = "add" =>
        /\ PosLe(last.a.end, last.b.start) =>
              last.sum = Some(RangeNew(last.a.start, last.b.end))
        /\ ~PosLe(last.a.end, last.b.start) => last.sum = None

\* C17: for each of the four operand combinations, a + b is the range
\* (a.start, b.end) when a.end <= b.start; when a.end > b.start it panics in
\* a build with debug assertions and returns (a.start, b.end) unchecked in a
\* build without them.
C17_RangeAdd ==
    last.op = "add" =>
        /\ PosLe(last.a.end, last.b.start) =>
              last.sum = Some(RangeNew(last.a.start, last.b.end))
        /\ (~PosLe(last.a.end, last.b.start) /\ last.debug) => last.sum = None
        /\ (~PosLe(last.a.end, last.b.start) /\ ~last.debug) =>
              last.sum = Some([start |-> last.a.start, end |-> last.b.end])

\* C17 witness: with debug assertions, two overlapping well-formed ranges
\* given by reference were rejected.
C17_Witness ==
    /\ last.op = "add" /\ last.impl = "&Range + &Range" /\ last.debug
    /\ PosLt(last.b.start, last.a.end) /\ PosLe(last.a.start, last.b.end)
    /\ last.sum = None

\* The automaton states of Inner::run on one line: the state it starts in,
\* then the state after each character step and after the end of the line.
RECURSIVE RunTrace(_, _, _)
RunTrace(acc, line_num, line) ==
    IF acc.status # "run" THEN <<acc>>
    ELSE IF acc.i > Len(line) THEN <<acc, RunEnd(acc)>>
    ELSE <<acc>> \o RunTrace(RunStep(acc, line_num, line), line_num, line)

\* The states the automaton went through in the last read of a line.
LastRunTrace ==
    RunTrace([comment |-> last.pre.comment, string |-> last.pre.string,
              queue |-> last.pre.queue, prev |-> None, i |-> 1, status |-> "run",
              err |-> None, pushed |-> 0, eol |-> None],
             Len(log) - 1, LastLine)

\* What is active in an automaton state: block comments open, a string
\* literal open, a generic token open (a closed string that awaits its
\* finalization is one).
ActiveModes(acc) ==
    {m \in {"comment", "string", "token"} :
        \/ m = "comment" /\ acc.comment # <<>>
        \/ m = "string" /\ acc.string # None
        \/ m = "token" /\ acc.prev # None}

\* C18: mode exclusivity.  Between calls no comment and string are open
\* together, and in every state the automaton goes through while it reads a
\* line (before the line, after each character step, at the end of the line)
\* at most one of comment, string, generic token is active.
C18_ModeExclusivity ==
    /\ comment = <<>> \/ string = None
    /\ ReadOneLine =>
          \A i \in 1 .. Len(LastRunTrace) :
              Cardinality(ActiveModes(LastRunTrace[i])) <= 1

\* C18 witness: one line was read in which each of the three was active at
\* some step, and the automaton state it left is the one of the trace.
C18_Witness ==
    /\ ReadOneLine /\ last.res = "True"
    /\ \A m \in {"comment", "string", "token"} :
          \E i \in 1 .. Len(LastRunTrace) : ActiveModes(LastRunTrace[i]) = {m}
    /\ LastRunTrace[Len(LastRunTrace)].comment = comment
    /\ LastRunTrace[Len(LastRunTrace)].queue = queue

\* Character k of the last line read is a / that opens the Slash state: it is
\* met outside comments and strings, and the character before it did not
\* open the Slash state itself.
SlashOpenedAt(k) ==
    /\ MetOutside(k) /\ LastLine[k] = "/"
    /\ LET e == Run(last.pre.comment, last.pre.string, Len(log) - 1,
                    SubSeq(LastLine, 1, k - 1), last.pre.queue).eol
       IN  e = None \/ e[1].state # "Slash"

\* The automaton run on the rest of the line after the /* at character k,
\* started with that one comment open at the position of the / and with the
\* tokens queued before it.
AfterCommentOpenedAt(k) ==
    Run(<<PosNew(Len(log) - 1, k - 1)>>, None, Len(log) - 1,
        Blanks(k + 1) \o SubSeq(LastLine, k + 2, Len(LastLine)),
        BeforeChar(k).queue)

\* C19: comment introducers in the generic automaton.  A // whose first /
\* opens the Slash state ends the line: the read succeeds, with or without a
\* line terminator, and the queue holds the tokens before the // and nothing
\* else.  A /* whose / opens the Slash state opens a block comment recorded
\* at the position of the /: the read ends as the comment automaton does on
\* the rest of the line, and no Slash token is queued.
C19_CommentIntroducers ==
    ReadOneLine => \A k \in 1 .. Len(LastLine) - 1 :
        SlashOpenedAt(k) =>
            /\ LastLine[k + 1] = "/" =>
                  /\ last.res = "True" /\ last.err = None
                  /\ queue = BeforeChar(k).queue
                  /\ comment = <<>> /\ string = None
            /\ LastLine[k + 1] = "*" =>
                  /\ comment = AfterCommentOpenedAt(k).comment
                  /\ string = AfterCommentOpenedAt(k).string
                  /\ queue = AfterCommentOpenedAt(k).queue
                  /\ last.err = AfterCommentOpenedAt(k).err
                  /\ last.res = "True" <=> AfterCommentOpenedAt(k).status = "ok"
                  /\ \A i \in 1 .. Len(queue) :
                        queue[i].range.start = PosNew(Len(log) - 1, k - 1)
                            => queue[i].token.kind # "Slash"

\* C19 witness: the final line "a//a", with no terminator, was read with
\* success and queued the identifier a only.
C19_Witness ==
    /\ ReadOneLine /\ LastLine = <<"a", "/", "/", "a">> /\ SlashOpenedAt(2)
    /\ last.res = "True" /\ input = <<>>
    /\ Len(queue) = 1 /\ queue[1].token = Tok("Identifier", <<"a">>)

\* The number of backslashes that end the text s.
RECURSIVE TrailingBackslashes(_)
TrailingBackslashes(s) ==
    IF s = <<>> \/ s[Len(s)] # "\\" THEN 0
    ELSE 1 + TrailingBackslashes(SubSeq(s, 1, Len(s) - 1))

\* C20: a backslash at the end of a line.  NoCharacterAfterBackSlash is
\* raised at a backslash that is the last character of the last line read,
\* a final line without terminator, with the string literal still open.  A
\* line without quote read while a string literal is open raises it exactly
\* when an odd number of backslashes ends the line: a backslash followed by
\* any character of the line, the line terminator included, never does.
C20_BackslashAtEndOfLine ==
    /\ ErrKind = "NoCharacterAfterBackSlash" =>
          /\ last.err[1].pos = Some(PosNew(Len(log) - 1, Len(LastLine) - 1))
          /\ LogChar(PosNew(Len(log) - 1, Len(LastLine) - 1)) = "\\"
          /\ string # None /\ input = <<>>
    /\ (/\ ReadOneLine /\ last.pre.comment = <<>> /\ last.pre.string # None
        /\ \A i \in 1 .. Len(LastLine) : LastLine[i] # "\"") =>
          (ErrKind = "NoCharacterAfterBackSlash"
              <=> TrailingBackslashes(LastLine) % 2 = 1)

\* C20 witness: a literal opened on the first line, the second line "a\"
\* ends the source and raised the error at its backslash.
C20_Witness ==
    /\ ReadOneLine /\ Len(log) = 2 /\ last.pre.string # None
    /\ LastLine = <<"a", "\\">>
    /\ last.err = Some(ErrPos("NoCharacterAfterBackSlash", PosNew(1, 1)))

(* ------------------------ read, statement by statement ----------------- *)

\* Lexer::read taken one statement at a time.  While Inner::run is working
\* on a line, last = [op |-> "running", line, line_num, acc]: the line that
\* read_line gave, the log.len() passed to run, and the automaton state, whose
\* comment, string and queue are the fields of the lexer run mutates.

\* read_line gave a line and run is entered; with the log pushed first.
ReadLineBeginLogFirst ==
    /\ last.op # "running" /\ input # <<>>
    /\ input' = Tail(input)
    /\ log' = Append(log, Head(input))
    /\ last' = [op |-> "running", line |-> Head(input), line_num |-> Len(log),
                acc |-> [comment |-> comment, string |-> string, queue |-> queue,
                         prev |-> None, i |-> 1, status |-> "run", err |-> None,
                         pushed |-> 0, eol |-> None]]
    /\ UNCHANGED <<comment, string, queue, src>>

\* read_line gave a line and run is entered with line_num = log.len().
ReadLineBegin ==
    /\ last.op # "running" /\ input # <<>>
    /\ input' = Tail(input)
    /\ last' = [op |-> "running", line |-> Head(input), line_num |-> Len(log),
                acc |-> [comment |-> comment, string |-> string, queue |-> queue,
                         prev |-> None, i |-> 1, status |-> "run", err |-> None,
                         pushed |-> 0, eol |-> None]]
    /\ UNCHANGED <<log, comment, string, queue, src>>

\* One iteration of the loop of run, or its end-of-line check.
RunOneStep ==
    /\ last.op = "running" /\ last.acc.status = "run"
    /\ LET a == IF last.acc.i > Len(last.line) THEN RunEnd(last.acc)
                ELSE RunStep(last.acc, last.line_num, last.line)
       IN  /\ last' = [last EXCEPT !.acc = a]
           /\ comment' = a.comment /\ string' = a.string /\ queue' = a.queue
    /\ UNCHANGED <<input, log, src>>

\* run returned: log.push(line), then the result is returned.
ReadLineEnd ==
    /\ last.op = "running" /\ last.acc.status # "run"
    /\ log' = Append(log, last.line)
    /\ last' = [op |-> "read", line |-> last.line, line_num |-> last.line_num,
                res |-> IF last.acc.status = "ok" THEN "True" ELSE "Err",
                err |-> last.acc.err]
    /\ UNCHANGED <<input, comment, string, queue, src>>

\* read_line gave nothing.
ReadAtEof ==
    /\ last.op # "running" /\ input = <<>>
    /\ LET r == ReadEof(State)
       IN  /\ comment' = r.L.comment /\ string' = r.L.string
           /\ last' = [op |-> "read", line |-> <<>>, line_num |-> Len(log),
                       res |-> r.res, err |-> r.err]
    /\ UNCHANGED <<input, log, queue, src>>

NextSteps == ReadLineBegin \/ RunOneStep \/ ReadLineEnd \/ ReadAtEof

SpecSteps == Init /\ [][NextSteps]_vars

KindsWithPos ==
    {"UnexpectedCharacter", "NoCharacterAfterBackSlash", "UnterminatedComment",
     "UnterminatedStringLiteral"}

KindsWithRange ==
    {"IncompleteScientificNotation", "SingleAmpersand", "SingleDot", "ParseFloatError"}

MaxPrintLen == 4

MaxPrintLine == 2

MaxPrintByte == 2

PrintAlphabet == {"a", "b", "\n"}

\* The logs rendered against: the lines of a text, as read pushes them.
PrintLogs == {SplitLines(t) : t \in TextsOver(PrintAlphabet, MaxPrintLen)}

\* The ranges rendered: those Range::new accepts.
PrintRanges ==
    {RangeNew(x[1], x[2]) :
        x \in {y \in {PosNew(l, b) : l \in 0 .. MaxPrintLine, b \in 0 .. MaxPrintByte}
                     \X {PosNew(l, b) : l \in 0 .. MaxPrintLine, b \in 0 .. MaxPrintByte} :
                 PosLe(y[1], y[2])}}

\* " !-> " and " <-! " of the format strings.
StartMarker == <<" ", "!", "-", ">", " ">>

EndMarker == <<" ", "<", "-", "!", " ">>

\* RangePrint that leaves out the rows between the first and the last line.
RangePrintNoRows(range, lg) ==
    LET s == range.start
        e == range.end
    IN  IF s.line = e.line
        THEN IF s.line < Len(lg) /\ s.byte <= e.byte /\ e.byte <= Len(lg[s.line + 1])
             THEN Some(Slice(lg[s.line + 1], 0, s.byte) \o StartMarker
                       \o Slice(lg[s.line + 1], s.byte, e.byte) \o EndMarker
                       \o Slice(lg[e.line + 1], e.byte, Len(lg[e.line + 1])))
             ELSE None
        ELSE IF /\ s.line < Len(lg) /\ s.byte <= Len(lg[s.line + 1])
                /\ s.line + 1 <= e.line /\ e.line < Len(lg)
                /\ e.byte <= Len(lg[e.line + 1])
             THEN Some(Slice(lg[s.line + 1], 0, s.byte) \o StartMarker
                       \o Slice(lg[s.line + 1], s.byte, Len(lg[s.line + 1]))
                       \o Slice(lg[e.line + 1], 0, e.byte) \o EndMarker
                       \o Slice(lg[e.line + 1], e.byte, Len(lg[e.line + 1])))
             ELSE None

\* Range::print: what it writes, None when an index or a slice panics.
RangePrint(range, lg) ==
    LET s == range.start
        e == range.end
    IN  IF s.line = e.line
        THEN IF s.line < Len(lg) /\ s.byte <= e.byte /\ e.byte <= Len(lg[s.line + 1])
             THEN Some(Slice(lg[s.line + 1], 0, s.byte) \o StartMarker
                       \o Slice(lg[s.line + 1], s.byte, e.byte) \o EndMarker
                       \o Slice(lg[e.line + 1], e.byte, Len(lg[e.line + 1])))
             ELSE None
        ELSE IF /\ s.line < Len(lg) /\ s.byte <= Len(lg[s.line + 1])
                /\ s.line + 1 <= e.line /\ e.line < Len(lg)
                /\ e.byte <= Len(lg[e.line + 1])
             THEN Some(Slice(lg[s.line + 1], 0, s.byte) \o StartMarker
                       \o Slice(lg[s.line + 1], s.byte, Len(lg[s.line + 1]))
                       \o Flatten(SubSeq(lg, s.line + 2, e.line))
                       \o Slice(lg[e.line + 1], 0, e.byte) \o EndMarker
                       \o Slice(lg[e.line + 1], e.byte, Len(lg[e.line + 1])))
             ELSE None

\* A caller holds a log and a range to render; the lexer is a new one over
\* the empty source.
InitPrint ==
    /\ src = <<>> /\ input = <<>> /\ log \in PrintLogs
    /\ comment = <<>> /\ string = None /\ queue = <<>>
    /\ \E range \in PrintRanges : last = [op |-> "range", range |-> range]

\* The caller renders the range against the log.
CallPrint ==
    /\ last.op = "range"
    /\ last' = [op |-> "print", range |-> last.range,
                out |-> RangePrint(last.range, log)]
    /\ UNCHANGED <<input, log, comment, string, queue, src>>

SpecPrint == InitPrint /\ [][CallPrint]_vars

\* A position lies inside the log.
InsideLog(p, lg) == p.line < Len(lg) /\ p.byte <= Len(lg[p.line + 1])

\* C23: rendering a range.  For a range whose positions lie inside the log,
\* the output is the concatenation of the log lines start.line .. end.line
\* with the start marker inserted at byte start.byte of the first of them
\* and the end marker at byte end.byte of the last: removing the two
\* markers gives those lines verbatim, the ones in between unmarked.  A
\* range with a position outside the log is not rendered.
C23_RangePrint ==
    last.op = "print" =>
        LET s == last.range.start
            e == last.range.end
        IN  IF InsideLog(s, log) /\ InsideLog(e, log)
            THEN LET text == Flatten(SubSeq(log, s.line + 1, e.line + 1))
                     a == s.byte
                     b == Len(Flatten(SubSeq(log, s.line + 1, e.line))) + e.byte
                 IN  last.out = Some(SubSeq(text, 1, a) \o StartMarker
                                     \o SubSeq(text, a + 1, b) \o EndMarker
                                     \o SubSeq(text, b + 1, Len(text)))
            ELSE last.out = None

\* C23 witness: a range from the first to the third line of the log was
\* rendered, with the second line between the markers.
C23_Witness ==
    /\ last.op = "print" /\ last.out # None
    /\ last.range.start.line = 0 /\ last.range.end.line = 2
    /\ last.range.start.byte = 1 /\ last.range.end.byte = 1
    /\ log = << <<"a", "\n">>, <<"\n">>, <<"b">> >>
    /\ last.out = Some(<<"a">> \o StartMarker \o <<"\n", "\n", "b">>
                       \o EndMarker)

\* The tokens the caller knows of in source order: the one the last call
\* delivered, if any, then those waiting in the queue.
Known == (IF last.tok # None THEN last.tok ELSE <<>>) \o queue

\* Where the text not yet turned into tokens begins: the opening quote of the
\* open string literal, else the start of the next line to read.
Frontier == IF string # None THEN string[1].pos ELSE PosNew(Len(log), 0)

FrontierPre ==
    IF last.pre.string # None THEN last.pre.string[1].pos
    ELSE PosNew(last.pre.nlog, 0)

\* C24: token ranges are well-formed and source-ordered.  Of the delivered
\* token followed by the queue, each range has start < end and ends at or
\* before the start of the next, so that concatenating two consecutive
\* ranges passes both assertions; every token ends at or before the text
\* not yet tokenized, which never moves back, and every token a call pushes
\* starts at or after where that text began before the call: a token
\* delivered or queued later never precedes one delivered earlier.
C24_TokenRangesOrdered ==
    /\ \A i \in 1 .. Len(Known) :
          /\ PosLt(Known[i].range.start, Known[i].range.end)
          /\ PosLe(Known[i].range.end, Frontier)
    /\ \A i \in 1 .. Len(Known) - 1 :
          /\ PosLe(Known[i].range.end, Known[i + 1].range.start)
          /\ RangeAdd("&Range + &Range", TRUE, Known[i].range, Known[i + 1].range)
                = Some(RangeNew(Known[i].range.start, Known[i + 1].range.end))
    /\ PosLe(FrontierPre, Frontier)
    /\ \A i \in Len(last.pre.queue) + 1 .. Len(Known) :
          PosLe(FrontierPre, Known[i].range.start)

\* C24 witness: next delivered a string literal that began on the line
\* before, the first of three tokens pushed by the second line, and the other
\* two wait in the queue.
C24_Witness ==
    /\ last.op = "next" /\ last.res = "Some" /\ Len(queue) = 2
    /\ Len(log) = 2 /\ last.pushed = 3
    /\ last.tok[1].token.kind = "String"
    /\ last.tok[1].range.start.line < last.tok[1].range.end.line
    /\ queue[1].range.start.line = last.tok[1].range.end.line

\* The positions of an error: its position, or the two ends of its range.
ErrPositions(e) ==
    (IF e.pos # None THEN {e.pos[1]} ELSE {})
    \cup (IF e.range # None THEN {e.range[1].start, e.range[1].end} ELSE {})

\* The positions the last call handed to the caller, in the token it
\* returned or in its error, and those the lexer holds for later calls: in
\* the queue, in the comment stack, in the open string literal.
HandedPositions ==
    (IF last.tok # None
     THEN {last.tok[1].range.start, last.tok[1].range.end} ELSE {})
    \cup (IF last.err # None THEN ErrPositions(last.err[1]) ELSE {})

HeldPositions ==
    {queue[i].range.start : i \in 1 .. Len(queue)}
    \cup {queue[i].range.end : i \in 1 .. Len(queue)}
    \cup {comment[i] : i \in 1 .. Len(comment)}
    \cup (IF string # None THEN {string[1].pos} ELSE {})

\* C25: positions lie inside the log.  Every position a call hands to the
\* caller, and every position the lexer holds for a later call, has a line
\* below the length of the log and a byte offset of at most the length of
\* that line: Pos::print and Range::print on it index inside the log.
C25_PositionsInsideLog ==
    /\ \A p \in HandedPositions \cup HeldPositions : InsideLog(p, log)
    /\ last.tok # None => RangePrint(last.tok[1].range, log) # None
    /\ (last.err # None /\ last.err[1].range # None) =>
          RangePrint(last.err[1].range[1], log) # None

\* C25 witness: the second call of next read the second line and failed at
\* its first character, which is in the log.
C25_Witness ==
    /\ last.op = "next" /\ last.res = "Err" /\ Len(log) = 2
    /\ last.err = Some(ErrPos("UnexpectedCharacter", PosNew(1, 0)))
    /\ InsideLog(PosNew(1, 0), log) /\ LogChar(PosNew(1, 0)) = "\\"

\* The reader is exhausted and the lexer holds nothing: no queued token, no
\* open comment, no open string literal.
Exhausted == input = <<>> /\ queue = <<>> /\ comment = <<>> /\ string = None

\* C26: end of input is absorbing.  A next that returns None leaves the
\* lexer exhausted, and every call on an exhausted lexer leaves the queue,
\* the log and the automaton state as they are and returns None (next) or
\* false (ask, read), never an error.
C26_EndOfInputAbsorbing ==
    [][ /\ (last'.op = "next" /\ last'.res = "None") => Exhausted'
        /\ Exhausted =>
              /\ UNCHANGED <<input, log, comment, string, queue>>
              /\ last'.err = None /\ last'.tok = None
              /\ last'.op = "next" => last'.res = "None"
              /\ last'.op \in {"ask", "read"} => last'.res = "False" ]_vars

\* C26 witness: after three lines were read, a next returned None on a
\* lexer that was already exhausted before the call.
C26_Witness ==
    /\ last.op = "next" /\ last.res = "None" /\ Len(log) = 3
    /\ last.pre.ninput = 0 /\ last.pre.queue = <<>> /\ last.reads = 1
    /\ last.pre.comment = <<>> /\ last.pre.string = None
    /\ Exhausted

\* The fault positions of the first n lines read by the lexer L and its
\* successors: the position of the error of a failing line, the start of its
\* range, or the end of the line for NoLineFeedAtEOF.
RECURSIVE FaultsFrom(_, _)
FaultsFrom(L, n) ==
    IF n = 0 \/ L.input = <<>> THEN {}
    ELSE LET r == read(L)
             fault == IF FaultPos(r.err[1]) # None THEN FaultPos(r.err[1])[1]
                      ELSE PosNew(Len(L.log), Len(Head(L.input)))
         IN  (IF r.res = "Err" THEN {fault} ELSE {}) \cup FaultsFrom(r.L, n - 1)

\* The faults of the lines of the log.
Faults == FaultsFrom(LexerNew(src), Len(log))

\* C27: no resynchronization inside a failing line.  No token delivered or
\* queued starts at or after the fault position on a line that failed; the
\* input left is the lines after those of the log; and a read that fails on
\* a line leaves the comment stack and the open string as the automaton had
\* them when it met the fault.
C27_NoResynchronization ==
    /\ \A f \in Faults : \A i \in 1 .. Len(Known) :
          ~(Known[i].range.start.line = f.line /\ PosLe(f, Known[i].range.start))
    /\ log = SubSeq(src, 1, Len(log))
    /\ input = SubSeq(src, Len(log) + 1, Len(src))
    /\ (ReadOneLine /\ last.res = "Err") =>
          /\ LastRunTrace[Len(LastRunTrace)].status = "err"
          /\ comment = LastRunTrace[Len(LastRunTrace) - 1].comment
          /\ string = LastRunTrace[Len(LastRunTrace) - 1].string
    /\ ReadOneLine =>
          /\ LastLine = src[Len(log)]
          /\ \A i \in 1 .. Len(NewTokens) :
                PosLe(FrontierPre, NewTokens[i].range.start)

\* C27 witness: the first line failed at its & after queuing a token, the
\* read of the second line queued a token of that line, and nothing of the
\* first line after the & was tokenized.
C27_Witness ==
    /\ last.op = "read" /\ last.res = "True" /\ Len(log) = 2
    /\ log[1] = <<"a", "&", "\n">>
    /\ Faults = {PosNew(0, 1)}
    /\ Len(queue) = 2
    /\ queue[1].range = RangeNew(PosNew(0, 0), PosNew(0, 1))
    /\ queue[2].range.start = PosNew(1, 0)

====
